---- MODULE Spec2Model ----
(***************************************************************************)
(* State-machine model of the team-chat WebSocket hub: src/src/app.js     *)
(* (connection handler, channel membership, message cache, reactions)     *)
(* with its collaborators src/src/services/messageService.js (message     *)
(* store client, token validation and the authenticateSocket middleware). *)
(* The second connection handler of the repository,                       *)
(* src/src/controllers/websocketController.js, is modelled beside it with  *)
(* its own registry.                                                       *)
(*                                                                         *)
(* Node runs the handlers on one event loop: a handler runs without        *)
(* interruption up to an `await` of a store call, where it suspends; every *)
(* action below is one such uninterrupted run.                             *)
(***************************************************************************)
EXTENDS Integers, Sequences, FiniteSets, Bags, TLC

(***************************************************************************)
(* Bounds of the model.                                                    *)
(***************************************************************************)
MaxPending == 2      \* handlers suspended on a store call at the same time
MaxMessages == 2     \* messages the store creates during a run
MaxReactions == 2    \* reaction posts the store accepts during a run
MaxTicks == 3        \* clock advances during a run
MaxTimers == 2       \* cache expiry timers scheduled and not yet fired
TicksPerTtl == 2     \* clock advances that make up one cache time-to-live

Conns == {"s1", "s2", "s3"}          \* connections (sockets)
Chans == {"c1", "c2"}                \* channel ids clients send
Users == {"A", "B"}                  \* user ids the auth service knows
ReactionTypes == {"like"}
Missing == ""                        \* an absent (falsy) payload field

(***************************************************************************)
(* Tokens and the auth service.  A token is a string; what the validate    *)
(* endpoint answers for it and what jwt.decode reads from it are fixed per *)
(* token.  "tokAnon" is a valid token for which the validate endpoint      *)
(* returns no userId.                                                      *)
(***************************************************************************)
Tokens == {Missing, "tokA", "tokB", "tokAnon", "tokBad"}
GoodTokens == {"tokA", "tokB"}

\* data of GET /api/auth/validate for a token (messageService.js:226)
ValidateData(token) ==
  CASE token = "tokA" -> [valid |-> TRUE, userId |-> "A"]
    [] token = "tokB" -> [valid |-> TRUE, userId |-> "B"]
    [] token = "tokAnon" -> [valid |-> TRUE, userId |-> Missing]
    [] OTHER -> [valid |-> FALSE, userId |-> Missing]

\* jwt.decode(token): userId || sub of the claims (messageService.js:111-112)
TokenUserId(token) ==
  CASE token = "tokA" -> "A"
    [] token = "tokB" -> "B"
    [] token = "tokAnon" -> "A"
    [] OTHER -> Missing

DefaultUserId == "user-id"

\* validateToken: responseOk is response.ok of the validate call.  The
\* result is <<TRUE, user id>> or <<FALSE, Missing>> for a thrown error.
validateTokenNoValidCheck(token, responseOk) ==
  IF responseOk
    THEN <<TRUE, IF ValidateData(token).userId # Missing
                   THEN ValidateData(token).userId ELSE DefaultUserId>>
    ELSE <<FALSE, Missing>>

validateToken(token, responseOk) ==
  IF ~responseOk THEN <<FALSE, Missing>>
  ELSE IF ~ValidateData(token).valid THEN <<FALSE, Missing>>
  ELSE <<TRUE, IF ValidateData(token).userId # Missing
                 THEN ValidateData(token).userId ELSE DefaultUserId>>

\* Two devices of user A (s1, s2) and one of user B (s3).
DeviceToken(s) == IF s = "s3" THEN "tokB" ELSE "tokA"
SameUserConns == {"s1", "s2"}
TwoUserConns == {"s1", "s3"}
OneChannel == {"c1"}
OneConn == {"s1"}

(***************************************************************************)
(* Names the code derives.                                                 *)
(***************************************************************************)
RoomName(channelId) == "channel:" \o channelId
CacheKey(channelId) == channelId         \* `${channelId}` of a string
MsgId(n) == "m" \o ToString(n)
ReactId(n) == "r" \o ToString(n)
TempId == "temp-id"
Rooms == {RoomName(c) : c \in Chans}

CacheTtlMs == 5 * 60 * 1000
TickMs == CacheTtlMs \div TicksPerTtl

(***************************************************************************)
(* State.                                                                  *)
(***************************************************************************)
VARIABLES
  status,               \* per connection: idle, authenticating, connected,
                        \* rejected, disconnected
  handshake,            \* per connection: socket.handshake.auth.token
  sockUser,             \* per connection: socket.user.id, Missing when unset
  rooms,                \* socket.io rooms: room name -> set of connections
  activeChannels,       \* Map channelId -> Set of user ids
  channelMessagesCache, \* Map cacheKey -> list of messages
  timers,               \* pending setTimeout callbacks: bag of [key, due]
  now,                  \* clock, ms
  store,                \* the message store behind the API: channel -> list
  msgSeq,               \* messages the store has created
  reactSeq,             \* reaction posts the store has accepted
  pending,              \* handlers suspended on a store call
  last,                 \* what the last step did: handler, connection,
                        \* events emitted, store calls started
  joinedChannels,       \* history: per connection, the channels it has
                        \* joined and not left since
  verifierCalls,        \* history: per connection, validateToken calls
  entryWindow,          \* history: cacheKey -> end of the time-to-live of
                        \* the entry last stored for it
  ctlStatus,            \* controller, per connection: idle, connected,
                        \* disconnected
  activeUsers,          \* controller: Map user id -> socket
  userChannels,         \* controller: Map user id -> list of rooms
  ctlRooms,             \* controller: per connection, the rooms it is in
  ctlPending,           \* controller: handlers suspended on an API call
  ctlLast,              \* controller: what the last step did
  jwtAuth               \* JWT-decoding middleware, per connection: how far
                        \* authenticateSocket has come and what it has done

connVars == <<status, handshake, sockUser, verifierCalls>>
memberVars == <<rooms, activeChannels, joinedChannels>>
cacheVars == <<channelMessagesCache, timers, entryWindow>>
storeVars == <<store, msgSeq, reactSeq>>
ctlVars == <<ctlStatus, activeUsers, userChannels, ctlRooms, ctlPending,
             ctlLast, jwtAuth>>
hubVars == <<status, handshake, sockUser, rooms, activeChannels,
             channelMessagesCache, timers, now, store, msgSeq, reactSeq,
             pending, last, joinedChannels, verifierCalls, entryWindow>>
vars == <<hubVars, ctlVars>>

(***************************************************************************)
(* Helpers: maps with a varying key set, emissions.                        *)
(***************************************************************************)
MapSet(m, k, v) == [x \in (DOMAIN m) \cup {k} |-> IF x = k THEN v ELSE m[x]]
MapDelete(m, k) == [x \in (DOMAIN m) \ {k} |-> m[x]]
EmptyMap == [x \in {} |-> {}]

Emission(ev, to, chan, data) ==
  [ev |-> ev, to |-> to, chan |-> chan, data |-> data]

\* socket.emit: reaches the socket while it is connected
ToSocket(s) == IF status[s] = "connected" THEN {s} ELSE {}
\* io.to(room): every socket in the room
ToRoom(rm, channelId) == rm[RoomName(channelId)]
\* the whole room, the sender with it
ToRoomWithSender(rm, channelId, s) == rm[RoomName(channelId)]

\* socket.to(room): every socket in the room but the sender
ToRoomExcept(rm, channelId, s) == rm[RoomName(channelId)] \ {s}

\* what a step did; ok is the response the step resumed with (TRUE for a
\* step that resumes from nothing)
StepR(op, s, chan, done, emits, calls, ok) ==
  [op |-> op, conn |-> s, chan |-> chan, done |-> done,
   emits |-> emits, calls |-> calls, ok |-> ok]

Step(op, s, chan, done, emits, calls) ==
  StepR(op, s, chan, done, emits, calls, TRUE)

\* Expired timers run at the start of a loop iteration, before I/O events.
TimerDue == \E t \in BagToSet(timers) : t.due <= now

\* a handler suspended at `await` of a store call, with the response it
\* will resume with
Suspended(op, await, s, channelId, ok, result, msg, rtype, rid) ==
  [op |-> op, await |-> await, conn |-> s, chan |-> channelId, ok |-> ok,
   result |-> result, msg |-> msg, rtype |-> rtype, rid |-> rid]

CanSuspend == Cardinality(pending) < MaxPending

\* a fetch that will schedule an expiry timer may start
CanSchedule ==
  BagCardinality(timers)
    + Cardinality({p \in pending : p.op = "join-channel"}) < MaxTimers

RECURSIVE SetToSeq(_)
SetToSeq(S) ==
  IF S = {} THEN <<>>
  ELSE LET x == CHOOSE y \in S : TRUE IN <<x>> \o SetToSeq(S \ {x})

\* the tokens the JWT-decoding middleware is tried with: of user A, of
\* user B, one whose claims carry no sub, one that jwt.decode cannot decode
JwtTokens == {Missing, "tokA", "tokB", "tokNoSub", "tokOpaque"}

\* jwt.decode(token) that hands back claims for a token it cannot decode
JwtDecodeLenient(token) ==
  CASE token = "tokA" -> <<[sub |-> "A"]>>
    [] token = "tokB" -> <<[sub |-> "B"]>>
    [] OTHER -> <<[sub |-> Missing]>>

\* jwt.decode(token): the claims, or null (<<>>) for a token that is not a
\* decodable JWT
JwtDecode(token) ==
  CASE token = "tokA" -> <<[sub |-> "A"]>>
    [] token = "tokB" -> <<[sub |-> "B"]>>
    [] token = "tokNoSub" -> <<[sub |-> Missing]>>
    [] OTHER -> <<>>

\* the middleware's record of a connection: user is socket.user (<<>> while
\* unset), affirmed says validateToken answered true, decodes counts the
\* jwt.decode calls, error is what next() was called with
JwtRecord(state, token, user, affirmed, decodes, error) ==
  [state |-> state, token |-> token, user |-> user, affirmed |-> affirmed,
   decodes |-> decodes, error |-> error]
JwtIdle == JwtRecord("idle", Missing, <<>>, FALSE, 0, Missing)

(***************************************************************************)
(* Init: the state after the module is loaded; the store holds what the    *)
(* backend holds.                                                          *)
(***************************************************************************)
InitStore == [c \in Chans |-> <<>>]

InitWith(st) ==
  /\ status = [s \in Conns |-> "idle"]
  /\ handshake = [s \in Conns |-> Missing]
  /\ sockUser = [s \in Conns |-> Missing]
  /\ rooms = [r \in Rooms |-> {}]
  /\ activeChannels = EmptyMap
  /\ channelMessagesCache = EmptyMap
  /\ timers = EmptyBag
  /\ now = 0
  /\ store = st
  /\ msgSeq = 0
  /\ reactSeq = 0
  /\ pending = {}
  /\ last = Step("init", Missing, Missing, TRUE, <<>>, <<>>)
  /\ joinedChannels = [s \in Conns |-> {}]
  /\ verifierCalls = [s \in Conns |-> 0]
  /\ entryWindow = EmptyMap
  /\ ctlStatus = [s \in Conns |-> "idle"]
  /\ activeUsers = EmptyMap
  /\ userChannels = EmptyMap
  /\ ctlRooms = [s \in Conns |-> {}]
  /\ ctlPending = {}
  /\ ctlLast = Step("init", Missing, Missing, TRUE, <<>>, <<>>)
  /\ jwtAuth = [s \in Conns |-> JwtIdle]

Init == InitWith(InitStore)

(***************************************************************************)
(* Connecting: io.use(authenticateSocket), then the connection handler.    *)
(***************************************************************************)
\* authenticateSocket up to the validateToken call
Connect(s, token) ==
  /\ status[s] = "idle"
  /\ ~TimerDue
  /\ handshake' = [handshake EXCEPT ![s] = token]
  /\ IF token = Missing
       THEN /\ status' = [status EXCEPT ![s] = "rejected"]
            /\ UNCHANGED verifierCalls
            /\ last' = Step("connect", s, Missing, TRUE, <<>>, <<>>)
       ELSE /\ status' = [status EXCEPT ![s] = "authenticating"]
            /\ verifierCalls' = [verifierCalls EXCEPT ![s] = @ + 1]
            /\ last' = Step("connect", s, Missing, FALSE, <<>>,
                            <<"validateToken">>)
  /\ UNCHANGED <<sockUser, memberVars, cacheVars, now, storeVars, pending>>
  /\ UNCHANGED ctlVars

\* the .then / .catch of validateToken(token)
AuthResult(s, token, responseOk) ==
  LET r == validateToken(token, responseOk) IN
  IF r[1] THEN <<"connected", r[2]>> ELSE <<"rejected", Missing>>

Authenticated(s, responseOk) ==
  /\ status[s] = "authenticating"
  /\ ~TimerDue
  /\ LET r == AuthResult(s, handshake[s], responseOk) IN
       /\ status' = [status EXCEPT ![s] = r[1]]
       /\ sockUser' = [sockUser EXCEPT ![s] = r[2]]
  /\ last' = StepR("authenticated", s, Missing, TRUE, <<>>, <<>>, responseOk)
  /\ UNCHANGED <<handshake, verifierCalls, memberVars, cacheVars, now,
                 storeVars, pending>>
  /\ UNCHANGED ctlVars

(***************************************************************************)
(* join-channel (app.js:50-126).                                           *)
(***************************************************************************)
ActiveAdd(ac, channelId, userId) ==
  MapSet(ac, channelId,
         (IF channelId \in DOMAIN ac THEN ac[channelId] ELSE {}) \cup {userId})

\* the tail of the handler: channel-joined, or the TypeError of
\* Array.from(undefined) caught by the outer catch
JoinConfirm(ac, s, channelId) ==
  IF channelId \in DOMAIN ac
    THEN Emission("channel-joined", ToSocket(s), channelId, ac[channelId])
    ELSE Emission("error", ToSocket(s), Missing, "Failed to join channel")

JoinChannel(s, channelId) ==
  /\ status[s] = "connected"
  /\ ~TimerDue
  /\ IF channelId = Missing
       THEN /\ last' = Step("join-channel", s, channelId, TRUE,
                 <<Emission("error", ToSocket(s), Missing,
                            "Channel ID is required")>>, <<>>)
            /\ UNCHANGED <<memberVars, pending>>
       ELSE LET rm == [rooms EXCEPT ![RoomName(channelId)] = @ \cup {s}]
                ac == ActiveAdd(activeChannels, channelId, sockUser[s])
                joinedEv == Emission("user-joined",
                                     ToRoomExcept(rm, channelId, s),
                                     channelId, sockUser[s])
            IN
            /\ rooms' = rm
            /\ activeChannels' = ac
            /\ joinedChannels' =
                 [joinedChannels EXCEPT ![s] = @ \cup {channelId}]
            /\ IF CacheKey(channelId) \in DOMAIN channelMessagesCache
                 THEN /\ last' = Step("join-channel", s, channelId, TRUE,
                           <<joinedEv,
                             Emission("channel-history", ToSocket(s),
                                      channelId,
                                      channelMessagesCache[CacheKey(channelId)]),
                             JoinConfirm(ac, s, channelId)>>, <<>>)
                      /\ UNCHANGED pending
                 ELSE /\ CanSuspend
                      /\ CanSchedule
                      /\ \E ok \in BOOLEAN :
                           LET p == Suspended("join-channel",
                                     "getChannelMessages", s, channelId, ok,
                                     IF ok THEN store[channelId] ELSE <<>>,
                                     Missing, Missing, Missing)
                           IN /\ p \notin pending
                              /\ pending' = pending \cup {p}
                      /\ last' = Step("join-channel", s, channelId, FALSE,
                                      <<joinedEv>>, <<"getChannelMessages">>)
  /\ UNCHANGED <<connVars, cacheVars, now, storeVars>>
  /\ UNCHANGED ctlVars

\* the handler resumed after `await getChannelMessages`
JoinChannelResume(p) ==
  /\ p \in pending
  /\ p.op = "join-channel"
  /\ ~TimerDue
  /\ pending' = pending \ {p}
  /\ IF p.ok
       THEN /\ channelMessagesCache' =
                 MapSet(channelMessagesCache, CacheKey(p.chan), p.result)
            /\ timers' = timers (+) SetToBag({[key |-> CacheKey(p.chan),
                                              due |-> now + CacheTtlMs]})
            /\ entryWindow' =
                 MapSet(entryWindow, CacheKey(p.chan), now + CacheTtlMs)
            /\ last' = StepR("join-channel", p.conn, p.chan, TRUE,
                 <<Emission("channel-history", ToSocket(p.conn), p.chan,
                            p.result),
                   JoinConfirm(activeChannels, p.conn, p.chan)>>, <<>>, p.ok)
       ELSE /\ UNCHANGED cacheVars
            /\ last' = StepR("join-channel", p.conn, p.chan, TRUE,
                 <<Emission("error", ToSocket(p.conn), Missing,
                            "FETCH_MESSAGES_ERROR"),
                   JoinConfirm(activeChannels, p.conn, p.chan)>>, <<>>, p.ok)
  /\ UNCHANGED <<connVars, memberVars, now, storeVars>>
  /\ UNCHANGED ctlVars

(***************************************************************************)
(* leave-channel (app.js:129-151).                                         *)
(***************************************************************************)
\* the removal that keeps the key of a channel left without members
ActiveRemoveKeepsKey(ac, channelId, userId) ==
  [ac EXCEPT ![channelId] = @ \ {userId}]

\* app.js:134-139
ActiveRemove(ac, channelId, userId) ==
  IF ac[channelId] \ {userId} = {}
    THEN MapDelete(ac, channelId)
    ELSE [ac EXCEPT ![channelId] = @ \ {userId}]

LeaveChannel(s, channelId) ==
  /\ status[s] = "connected"
  /\ ~TimerDue
  /\ joinedChannels' = [joinedChannels EXCEPT ![s] = @ \ {channelId}]
  /\ IF channelId # Missing /\ channelId \in DOMAIN activeChannels
       THEN LET rm == [rooms EXCEPT ![RoomName(channelId)] = @ \ {s}] IN
            /\ activeChannels' =
                 ActiveRemove(activeChannels, channelId, sockUser[s])
            /\ rooms' = rm
            /\ last' = Step("leave-channel", s, channelId, TRUE,
                 <<Emission("user-left", ToRoomExcept(rm, channelId, s),
                            channelId, sockUser[s])>>, <<>>)
       ELSE /\ UNCHANGED <<rooms, activeChannels>>
            /\ last' = Step("leave-channel", s, channelId, TRUE, <<>>, <<>>)
  /\ UNCHANGED <<connVars, cacheVars, now, storeVars, pending>>
  /\ UNCHANGED ctlVars

(***************************************************************************)
(* disconnect (app.js:519-540).  socket.io takes the socket out of its     *)
(* rooms before it emits "disconnect".                                     *)
(***************************************************************************)
DisconnectChannels(ac, userId) ==
  {c \in DOMAIN ac : userId \in ac[c]}

\* the disconnect that deletes the channels left empty and leaves the user
\* in the sets it shares with others
DisconnectActiveShared(ac, userId) ==
  [c \in {k \in DOMAIN ac : ac[k] \ {userId} # {}} |-> ac[c]]

\* the disconnect that leaves activeChannels as it is
DisconnectActiveKept(ac, userId) == ac

\* app.js:523-538
DisconnectActive(ac, userId) ==
  [c \in {k \in DOMAIN ac : ac[k] \ {userId} # {}} |-> ac[c] \ {userId}]

Disconnect(s) ==
  /\ status[s] = "connected"
  /\ ~TimerDue
  /\ LET rm == [r \in Rooms |-> rooms[r] \ {s}]
         left == SetToSeq(DisconnectChannels(activeChannels, sockUser[s]))
     IN
     /\ status' = [status EXCEPT ![s] = "disconnected"]
     /\ rooms' = rm
     /\ activeChannels' = DisconnectActive(activeChannels, sockUser[s])
     /\ joinedChannels' = [joinedChannels EXCEPT ![s] = {}]
     /\ last' = Step("disconnect", s, Missing, TRUE,
          [i \in 1..Len(left) |->
             Emission("user-left", ToRoomExcept(rm, left[i], s), left[i],
                      sockUser[s])], <<>>)
  /\ UNCHANGED <<handshake, sockUser, verifierCalls, cacheVars, now,
                 storeVars, pending>>
  /\ UNCHANGED ctlVars

(***************************************************************************)
(* The message store as messageService.js uses it.  A store call takes     *)
(* effect when it is made; the caller resumes later with the response.     *)
(***************************************************************************)
\* POST /api/messages (createMessage, messageService.js:155-196)
NewStoredMessage(channelId, token, n) ==
  [id |-> MsgId(n), channelId |-> channelId, senderId |-> TokenUserId(token),
   reactions |-> <<>>]

\* the reactions of a stored or cached message list entry with this id
ReactionsOf(messages, messageId) ==
  LET hits == {i \in 1..Len(messages) : messages[i].id = messageId} IN
  IF hits = {} THEN <<>>
  ELSE messages[CHOOSE i \in hits : \A j \in hits : i <= j].reactions

MapMessages(messages, messageId, F(_)) ==
  [i \in 1..Len(messages) |->
     IF messages[i].id = messageId
       THEN [messages[i] EXCEPT !.reactions = F(@)]
       ELSE messages[i]]

\* POST /api/messages/:id/reactions with {user_id, reaction_type}
\* (addReaction, messageService.js:46-71); the store keeps one reaction per
\* user and type
StorePostReaction(st, messageId, userId, reactionType, n) ==
  [c \in Chans |->
     LET Add(rs) ==
           IF \E i \in 1..Len(rs) : /\ rs[i].userId = userId
                                    /\ rs[i].reactionType = reactionType
             THEN rs
             ELSE Append(rs, [id |-> ReactId(n), userId |-> userId,
                              reactionType |-> reactionType])
     IN MapMessages(st[c], messageId, Add)]

\* DELETE /api/messages/:id/reactions with {user_id, reaction_type}
\* (removeReaction, messageService.js:118-142): the reaction id is not sent
StoreDeleteReaction(st, messageId, userId, reactionType) ==
  [c \in Chans |->
     LET Keep(r) == ~(r.userId = userId /\ r.reactionType = reactionType)
         Del(rs) == SelectSeq(rs, Keep)
     IN MapMessages(st[c], messageId, Del)]

StoreHasMessage(st, messageId) ==
  \E c \in Chans : \E i \in 1..Len(st[c]) : st[c][i].id = messageId

\* GET /api/messages/:id/reactions, then reactions.find(...) || temp-id
\* (addReaction, messageService.js:74-94)
CreatedReaction(st, messageId, userId, reactionType) ==
  LET all == [c \in Chans |-> ReactionsOf(st[c], messageId)]
      rs == IF \E c \in Chans : all[c] # <<>>
              THEN all[CHOOSE c \in Chans : all[c] # <<>>] ELSE <<>>
      hits == {i \in 1..Len(rs) : /\ rs[i].userId = userId
                                  /\ rs[i].reactionType = reactionType}
  IN IF hits = {}
       THEN [id |-> TempId, userId |-> userId, reactionType |-> reactionType]
       ELSE rs[CHOOSE i \in hits : \A j \in hits : i <= j]

(***************************************************************************)
(* Cache updates of the handlers.                                          *)
(***************************************************************************)
\* the append without the test for an existing entry
CacheAppendUncached(cache, key, message) ==
  MapSet(cache, key,
         Append(IF key \in DOMAIN cache THEN cache[key] ELSE <<>>, message))

\* app.js:178-182
CacheAppend(cache, key, message) ==
  IF key \in DOMAIN cache
    THEN MapSet(cache, key, Append(cache[key], message))
    ELSE cache

\* app.js:276-286: the caller's reaction of this type on the cached message
ExistingReaction(cache, key, messageId, userId, reactionType) ==
  IF key \notin DOMAIN cache THEN <<>>
  ELSE LET rs == ReactionsOf(cache[key], messageId)
           hits == {i \in 1..Len(rs) : /\ rs[i].userId = userId
                                       /\ rs[i].reactionType = reactionType}
       IN IF hits = {} THEN <<>>
          ELSE <<rs[CHOOSE i \in hits : \A j \in hits : i <= j]>>

\* the add that writes back the reactions as one reaction only
CacheAddReactionAlone(cache, key, messageId, reaction) ==
  IF key \in DOMAIN cache
    THEN LET Add(rs) == <<reaction>> IN
         MapSet(cache, key, MapMessages(cache[key], messageId, Add))
    ELSE cache

\* app.js:341-353
CacheAddReaction(cache, key, messageId, reaction) ==
  IF key \in DOMAIN cache
    THEN LET Add(rs) == Append(rs, reaction) IN
         MapSet(cache, key, MapMessages(cache[key], messageId, Add))
    ELSE cache

\* the removal that leaves the cached reactions as they are
CacheRemoveReactionKept(cache, key, messageId, reactionId) == cache

\* app.js:304-318 and app.js:406-420
CacheRemoveReaction(cache, key, messageId, reactionId) ==
  IF key \in DOMAIN cache
    THEN LET Keep(r) == r.id # reactionId
             Del(rs) == SelectSeq(rs, Keep)
         IN MapSet(cache, key, MapMessages(cache[key], messageId, Del))
    ELSE cache

(***************************************************************************)
(* new-message (app.js:154-204).                                           *)
(***************************************************************************)
\* the test that lets a payload without content through
NewMessageLacksChannel(channelId, content) == channelId = Missing

\* app.js:158
NewMessageLacks(channelId, content) ==
  channelId = Missing \/ content = Missing

NewMessage(s, channelId, content) ==
  /\ status[s] = "connected"
  /\ ~TimerDue
  /\ IF NewMessageLacks(channelId, content)
       THEN /\ last' = Step("new-message", s, channelId, TRUE,
                 <<Emission("error", ToSocket(s), Missing,
                            "Channel ID and content are required")>>, <<>>)
            /\ UNCHANGED <<storeVars, pending>>
       ELSE /\ CanSuspend
            /\ msgSeq < MaxMessages
            /\ \E ok \in (IF TokenUserId(handshake[s]) = Missing
                            THEN {FALSE} ELSE BOOLEAN) :
                 LET saved == NewStoredMessage(channelId, handshake[s],
                                               msgSeq + 1)
                     p == Suspended("new-message", "createMessage", s,
                                    channelId, ok,
                                    IF ok THEN <<saved>> ELSE <<>>,
                                    Missing, Missing, Missing)
                 IN /\ p \notin pending
                    /\ pending' = pending \cup {p}
                    /\ IF ok
                         THEN /\ store' = [store EXCEPT ![channelId] =
                                             Append(@, saved)]
                              /\ msgSeq' = msgSeq + 1
                         ELSE UNCHANGED <<store, msgSeq>>
                    /\ UNCHANGED reactSeq
            /\ last' = Step("new-message", s, channelId, FALSE, <<>>,
                            <<"createMessage">>)
  /\ UNCHANGED <<connVars, memberVars, cacheVars, now>>
  /\ UNCHANGED ctlVars

\* the confirmation sent ahead of the broadcast
NewMessageEmitsSentFirst(p, rm) ==
  IF p.ok
    THEN <<Emission("message-sent", ToSocket(p.conn), Missing,
                    p.result[1].id),
           Emission("message", ToRoom(rm, p.chan), p.chan, p.result[1])>>
    ELSE <<Emission("error", ToSocket(p.conn), Missing,
                    "SAVE_MESSAGE_ERROR")>>

\* the failure announced to the channel's room
NewMessageEmitsErrorToRoom(p, rm) ==
  IF p.ok
    THEN <<Emission("message", ToRoom(rm, p.chan), p.chan, p.result[1]),
           Emission("message-sent", ToSocket(p.conn), Missing,
                    p.result[1].id)>>
    ELSE <<Emission("error", ToRoom(rm, p.chan), Missing,
                    "SAVE_MESSAGE_ERROR")>>

\* what the resumed handler emits (app.js:184-199)
NewMessageEmits(p, rm) ==
  IF p.ok
    THEN <<Emission("message", ToRoom(rm, p.chan), p.chan, p.result[1]),
           Emission("message-sent", ToSocket(p.conn), Missing,
                    p.result[1].id)>>
    ELSE <<Emission("error", ToSocket(p.conn), Missing,
                    "SAVE_MESSAGE_ERROR")>>

NewMessageResume(p) ==
  /\ p \in pending
  /\ p.op = "new-message"
  /\ ~TimerDue
  /\ pending' = pending \ {p}
  /\ channelMessagesCache' =
       IF p.ok
         THEN CacheAppend(channelMessagesCache, CacheKey(p.chan), p.result[1])
         ELSE channelMessagesCache
  /\ last' = StepR("new-message", p.conn, p.chan, TRUE,
                  NewMessageEmits(p, rooms), <<>>, p.ok)
  /\ UNCHANGED <<connVars, memberVars, timers, entryWindow, now, storeVars>>
  /\ UNCHANGED ctlVars

(***************************************************************************)
(* refresh-messages (app.js:444-475).                                      *)
(***************************************************************************)
RefreshMessages(s, channelId) ==
  /\ status[s] = "connected"
  /\ ~TimerDue
  /\ IF channelId = Missing
       THEN /\ last' = Step("refresh-messages", s, channelId, TRUE,
                 <<Emission("error", ToSocket(s), Missing,
                            "Channel ID is required")>>, <<>>)
            /\ UNCHANGED <<channelMessagesCache, entryWindow, pending>>
       ELSE /\ CanSuspend
            /\ channelMessagesCache' =
                 MapDelete(channelMessagesCache, CacheKey(channelId))
            /\ entryWindow' = MapDelete(entryWindow, CacheKey(channelId))
            /\ \E ok \in BOOLEAN :
                 LET p == Suspended("refresh-messages", "getChannelMessages",
                                    s, channelId, ok,
                                    IF ok THEN store[channelId] ELSE <<>>,
                                    Missing, Missing, Missing)
                 IN /\ p \notin pending
                    /\ pending' = pending \cup {p}
            /\ last' = Step("refresh-messages", s, channelId, FALSE, <<>>,
                            <<"getChannelMessages">>)
  /\ UNCHANGED <<connVars, memberVars, timers, now, storeVars>>
  /\ UNCHANGED ctlVars

RefreshMessagesResume(p) ==
  /\ p \in pending
  /\ p.op = "refresh-messages"
  /\ ~TimerDue
  /\ pending' = pending \ {p}
  /\ IF p.ok
       THEN /\ channelMessagesCache' =
                 MapSet(channelMessagesCache, CacheKey(p.chan), p.result)
            /\ entryWindow' =
                 MapSet(entryWindow, CacheKey(p.chan), now + CacheTtlMs)
            /\ last' = StepR("refresh-messages", p.conn, p.chan, TRUE,
                 <<Emission("channel-history", ToSocket(p.conn), p.chan,
                            p.result)>>, <<>>, p.ok)
       ELSE /\ UNCHANGED <<channelMessagesCache, entryWindow>>
            /\ last' = StepR("refresh-messages", p.conn, p.chan, TRUE,
                 <<Emission("error", ToSocket(p.conn), Missing,
                            "FETCH_MESSAGES_ERROR")>>, <<>>, p.ok)
  /\ UNCHANGED <<connVars, memberVars, timers, now, storeVars>>
  /\ UNCHANGED ctlVars

(***************************************************************************)
(* add-reaction (app.js:251-379): a toggle decided on the cached copy.     *)
(***************************************************************************)
\* the store call removeReaction(messageId, reactionId, userId, type, token):
\* it throws before the request when the token yields no user id
RemoveCallOutcomes(token) ==
  IF TokenUserId(token) = Missing THEN {FALSE} ELSE BOOLEAN

\* app.js:336-338, the POST of addReaction; `from` is the suspended handler
\* that goes on to it, if any
AddReactionCall(s, messageId, channelId, reactionType, from) ==
  \E ok \in (IF StoreHasMessage(store, messageId) /\ reactSeq < MaxReactions
               THEN BOOLEAN ELSE {FALSE}) :
    LET p == Suspended("add-reaction", "addReaction.post", s, channelId,
                       ok, <<>>, messageId, reactionType, Missing)
        st == StorePostReaction(store, messageId, sockUser[s], reactionType,
                                reactSeq + 1)
    IN /\ p \notin pending
       /\ pending' = (pending \ from) \cup {p}
       /\ store' = IF ok THEN st ELSE store
       /\ reactSeq' = IF ok THEN reactSeq + 1 ELSE reactSeq
       /\ UNCHANGED msgSeq

AddReaction(s, messageId, channelId, reactionType) ==
  /\ status[s] = "connected"
  /\ ~TimerDue
  /\ IF messageId = Missing \/ channelId = Missing \/ reactionType = Missing
       THEN /\ last' = Step("add-reaction", s, channelId, TRUE,
                 <<Emission("error", ToSocket(s), Missing,
                     "Message ID, Channel ID and reaction type are required")>>,
                 <<>>)
            /\ UNCHANGED <<storeVars, pending>>
       ELSE LET existing == ExistingReaction(channelMessagesCache,
                              CacheKey(channelId), messageId, sockUser[s],
                              reactionType)
            IN
            /\ CanSuspend
            /\ IF existing # <<>>
                 THEN /\ \E ok \in RemoveCallOutcomes(handshake[s]) :
                           LET p == Suspended("add-reaction",
                                      "removeReaction", s, channelId, ok,
                                      <<>>, messageId, reactionType,
                                      existing[1].id)
                           IN /\ p \notin pending
                              /\ pending' = pending \cup {p}
                              /\ store' = IF ok
                                   THEN StoreDeleteReaction(store, messageId,
                                          TokenUserId(handshake[s]),
                                          reactionType)
                                   ELSE store
                      /\ UNCHANGED <<msgSeq, reactSeq>>
                      /\ last' = Step("add-reaction", s, channelId, FALSE,
                                      <<>>, <<"removeReaction">>)
                 ELSE /\ AddReactionCall(s, messageId, channelId,
                                         reactionType, {})
                      /\ last' = Step("add-reaction", s, channelId, FALSE,
                                      <<>>, <<"addReaction">>)
  /\ UNCHANGED <<connVars, memberVars, cacheVars, now>>
  /\ UNCHANGED ctlVars

ReactionUpdate(rm, p, reactionId, action) ==
  Emission("reaction-update", ToRoom(rm, p.chan), p.chan,
           [id |-> reactionId, messageId |-> p.msg,
            userId |-> sockUser[p.conn], reactionType |-> p.rtype,
            action |-> action])

\* resumed after `await removeReaction` (app.js:303-333): on success the
\* cache is updated and the removal broadcast; on failure the error is
\* logged and the handler goes on to add a new reaction
ToggleRemoveResume(p) ==
  /\ p \in pending
  /\ p.op = "add-reaction" /\ p.await = "removeReaction"
  /\ ~TimerDue
  /\ IF p.ok
       THEN /\ pending' = pending \ {p}
            /\ channelMessagesCache' =
                 CacheRemoveReaction(channelMessagesCache, CacheKey(p.chan),
                                     p.msg, p.rid)
            /\ last' = StepR("add-reaction", p.conn, p.chan, TRUE,
                            <<ReactionUpdate(rooms, p, p.rid, "remove")>>,
                            <<>>, p.ok)
            /\ UNCHANGED storeVars
       ELSE /\ AddReactionCall(p.conn, p.msg, p.chan, p.rtype, {p})
            /\ UNCHANGED channelMessagesCache
            /\ last' = StepR("add-reaction", p.conn, p.chan, FALSE, <<>>,
                            <<"addReaction">>, p.ok)
  /\ UNCHANGED <<connVars, memberVars, timers, entryWindow, now>>
  /\ UNCHANGED ctlVars

\* inside addReaction, after the POST (messageService.js:69-82): the GET of
\* the message's reactions
AddReactionPosted(p) ==
  /\ p \in pending
  /\ p.op = "add-reaction" /\ p.await = "addReaction.post"
  /\ ~TimerDue
  /\ IF p.ok
       THEN /\ \E ok \in BOOLEAN :
                 LET q == Suspended("add-reaction", "addReaction.get",
                            p.conn, p.chan, ok,
                            IF ok THEN <<CreatedReaction(store, p.msg,
                                           sockUser[p.conn], p.rtype)>>
                            ELSE <<>>, p.msg, p.rtype, Missing)
                 IN /\ q \notin pending
                    /\ pending' = (pending \ {p}) \cup {q}
            /\ last' = StepR("add-reaction", p.conn, p.chan, FALSE, <<>>,
                            <<"addReaction.get">>, p.ok)
       ELSE /\ pending' = pending \ {p}
            /\ last' = StepR("add-reaction", p.conn, p.chan, TRUE,
                 <<Emission("error", ToSocket(p.conn), Missing,
                            "REACTION_ERROR")>>, <<>>, p.ok)
  /\ UNCHANGED <<connVars, memberVars, cacheVars, now, storeVars>>
  /\ UNCHANGED ctlVars

\* resumed after `await addReaction` (app.js:340-374)
AddReactionResume(p) ==
  /\ p \in pending
  /\ p.op = "add-reaction" /\ p.await = "addReaction.get"
  /\ ~TimerDue
  /\ pending' = pending \ {p}
  /\ IF p.ok
       THEN /\ channelMessagesCache' =
                 CacheAddReaction(channelMessagesCache, CacheKey(p.chan),
                                  p.msg, p.result[1])
            /\ last' = StepR("add-reaction", p.conn, p.chan, TRUE,
                 <<ReactionUpdate(rooms, p, p.result[1].id, "add")>>, <<>>, p.ok)
       ELSE /\ UNCHANGED channelMessagesCache
            /\ last' = StepR("add-reaction", p.conn, p.chan, TRUE,
                 <<Emission("error", ToSocket(p.conn), Missing,
                            "REACTION_ERROR")>>, <<>>, p.ok)
  /\ UNCHANGED <<connVars, memberVars, timers, entryWindow, now, storeVars>>
  /\ UNCHANGED ctlVars

(***************************************************************************)
(* remove-reaction (app.js:382-442).                                       *)
(***************************************************************************)
RemoveReaction(s, messageId, reactionId, channelId, reactionType) ==
  /\ status[s] = "connected"
  /\ ~TimerDue
  /\ IF \/ messageId = Missing \/ reactionId = Missing
        \/ channelId = Missing \/ reactionType = Missing
       THEN /\ last' = Step("remove-reaction", s, channelId, TRUE,
                 <<Emission("error", ToSocket(s), Missing,
                     "Message ID, Reaction ID, Channel ID and reaction type are required")>>,
                 <<>>)
            /\ UNCHANGED <<store, pending>>
       ELSE /\ CanSuspend
            /\ \E ok \in RemoveCallOutcomes(handshake[s]) :
                 LET p == Suspended("remove-reaction", "removeReaction", s,
                            channelId, ok, <<>>, messageId, reactionType,
                            reactionId)
                 IN /\ p \notin pending
                    /\ pending' = pending \cup {p}
                    /\ store' = IF ok
                         THEN StoreDeleteReaction(store, messageId,
                                TokenUserId(handshake[s]), reactionType)
                         ELSE store
            /\ last' = Step("remove-reaction", s, channelId, FALSE, <<>>,
                            <<"removeReaction">>)
  /\ UNCHANGED <<connVars, memberVars, cacheVars, now, msgSeq, reactSeq>>
  /\ UNCHANGED ctlVars

RemoveReactionResume(p) ==
  /\ p \in pending
  /\ p.op = "remove-reaction"
  /\ ~TimerDue
  /\ pending' = pending \ {p}
  /\ IF p.ok
       THEN /\ channelMessagesCache' =
                 CacheRemoveReaction(channelMessagesCache, CacheKey(p.chan),
                                     p.msg, p.rid)
            /\ last' = StepR("remove-reaction", p.conn, p.chan, TRUE,
                            <<ReactionUpdate(rooms, p, p.rid, "remove")>>,
                            <<>>, p.ok)
       ELSE /\ UNCHANGED channelMessagesCache
            /\ last' = StepR("remove-reaction", p.conn, p.chan, TRUE,
                 <<Emission("error", ToSocket(p.conn), Missing,
                            "REACTION_ERROR")>>, <<>>, p.ok)
  /\ UNCHANGED <<connVars, memberVars, timers, entryWindow, now, storeVars>>
  /\ UNCHANGED ctlVars

(***************************************************************************)
(* typing (app.js:478-490).                                                *)
(***************************************************************************)
Typing(s, channelId, isTyping) ==
  /\ status[s] = "connected"
  /\ ~TimerDue
  /\ last' = Step("typing", s, channelId, TRUE,
       IF channelId # Missing
         THEN <<Emission("user-typing", ToRoomExcept(rooms, channelId, s),
                         channelId,
                         [userId |-> sockUser[s], isTyping |-> isTyping])>>
         ELSE <<>>, <<>>)
  /\ UNCHANGED <<connVars, memberVars, cacheVars, now, storeVars, pending>>
  /\ UNCHANGED ctlVars

(***************************************************************************)
(* The controller (controllers/websocketController.js): a second           *)
(* connection handler with its own registry, keyed by user id.  The API    *)
(* service it calls is handed in by the caller; a call either returns or   *)
(* throws.                                                                 *)
(***************************************************************************)
\* socket.user.id of a connection the middleware let through
CtlUser(s) == validateToken(DeviceToken(s), TRUE)[2]
CtlRoomName(teamId, channelId) ==
  "team:" \o teamId \o ":channel:" \o channelId
CtlToSocket(s) == IF ctlStatus[s] = "connected" THEN {s} ELSE {}
CtlToRoom(rm, room) == {o \in Conns : room \in rm[o]}
\* userChannels.get(socket.user.id) || []
PreviousChannels(uc, userId) ==
  IF userId \in DOMAIN uc THEN uc[userId] ELSE <<>>

\* websocketController.js:5-7
CtlConnect(s) ==
  /\ ctlStatus[s] = "idle"
  /\ ctlStatus' = [ctlStatus EXCEPT ![s] = "connected"]
  /\ activeUsers' = MapSet(activeUsers, CtlUser(s), s)
  /\ ctlLast' = Step("connect", s, Missing, TRUE, <<>>, <<>>)
  /\ UNCHANGED <<userChannels, ctlRooms, ctlPending>>
  /\ UNCHANGED <<hubVars, jwtAuth>>

\* websocketController.js:30-49, up to the await
CtlSubscribe(s, teamId, channelId) ==
  /\ ctlStatus[s] = "connected"
  /\ IF teamId = Missing \/ channelId = Missing
       THEN /\ ctlLast' = Step("subscribe", s, Missing, TRUE,
                 <<Emission("error", CtlToSocket(s), Missing,
                            "Team ID and Channel ID are required")>>, <<>>)
            /\ UNCHANGED <<userChannels, ctlRooms, ctlPending>>
       ELSE LET channelRoom == CtlRoomName(teamId, channelId)
                previous == PreviousChannels(userChannels, CtlUser(s))
                left == {previous[i] : i \in 1..Len(previous)}
            IN
            /\ Cardinality(ctlPending) < MaxPending
            /\ ctlRooms' = [ctlRooms EXCEPT ![s] = (@ \ left)
                                                    \cup {channelRoom}]
            /\ userChannels' = MapSet(userChannels, CtlUser(s),
                                      <<channelRoom>>)
            /\ \E ok \in BOOLEAN :
                 LET p == Suspended("subscribe", "getChannelMessages", s,
                            channelRoom, ok, <<>>, Missing, Missing, Missing)
                 IN /\ p \notin ctlPending
                    /\ ctlPending' = ctlPending \cup {p}
            /\ ctlLast' = Step("subscribe", s, channelRoom, FALSE, <<>>,
                               <<"getChannelMessages">>)
  /\ UNCHANGED <<ctlStatus, activeUsers>>
  /\ UNCHANGED <<hubVars, jwtAuth>>

\* websocketController.js:51-59
CtlSubscribeResume(p) ==
  /\ p \in ctlPending
  /\ p.op = "subscribe"
  /\ ctlPending' = ctlPending \ {p}
  /\ ctlLast' = StepR("subscribe", p.conn, p.chan, TRUE,
       IF p.ok
         THEN <<Emission("messages", CtlToSocket(p.conn), Missing, <<>>)>>
         ELSE <<Emission("error", CtlToSocket(p.conn), Missing,
                         "SUBSCRIBE_ERROR")>>, <<>>, p.ok)
  /\ UNCHANGED <<ctlStatus, activeUsers, userChannels, ctlRooms>>
  /\ UNCHANGED <<hubVars, jwtAuth>>

\* websocketController.js:63-78, up to the await
CtlMessage(s, teamId, channelId, content) ==
  /\ ctlStatus[s] = "connected"
  /\ IF teamId = Missing \/ channelId = Missing \/ content = Missing
       THEN /\ ctlLast' = Step("message", s, Missing, TRUE,
                 <<Emission("error", CtlToSocket(s), Missing,
                            "MESSAGE_ERROR")>>, <<>>)
            /\ UNCHANGED ctlPending
       ELSE /\ Cardinality(ctlPending) < MaxPending
            /\ \E ok \in BOOLEAN :
                 LET p == Suspended("message", "sendMessage", s,
                            CtlRoomName(teamId, channelId), ok,
                            <<[channelId |-> channelId,
                               senderId |-> CtlUser(s),
                               content |-> content]>>,
                            Missing, Missing, Missing)
                 IN /\ p \notin ctlPending
                    /\ ctlPending' = ctlPending \cup {p}
            /\ ctlLast' = Step("message", s, CtlRoomName(teamId, channelId),
                               FALSE, <<>>, <<"sendMessage">>)
  /\ UNCHANGED <<ctlStatus, activeUsers, userChannels, ctlRooms>>
  /\ UNCHANGED <<hubVars, jwtAuth>>

\* websocketController.js:80-91
CtlMessageResume(p) ==
  /\ p \in ctlPending
  /\ p.op = "message"
  /\ ctlPending' = ctlPending \ {p}
  /\ ctlLast' = StepR("message", p.conn, p.chan, TRUE,
       IF p.ok
         THEN <<Emission("message", CtlToRoom(ctlRooms, p.chan), p.chan,
                         p.result[1])>>
         ELSE <<Emission("error", CtlToSocket(p.conn), Missing,
                         "MESSAGE_ERROR")>>, <<>>, p.ok)
  /\ UNCHANGED <<ctlStatus, activeUsers, userChannels, ctlRooms>>
  /\ UNCHANGED <<hubVars, jwtAuth>>

\* websocketController.js:95-108
CtlTyping(s, teamId, channelId, isTyping) ==
  /\ ctlStatus[s] = "connected"
  /\ ctlLast' = Step("typing", s, Missing, TRUE,
       IF teamId = Missing \/ channelId = Missing
         THEN <<>>
         ELSE <<Emission("typing",
                  CtlToRoom(ctlRooms, CtlRoomName(teamId, channelId)) \ {s},
                  CtlRoomName(teamId, channelId),
                  [userId |-> CtlUser(s), isTyping |-> isTyping])>>, <<>>)
  /\ UNCHANGED <<ctlStatus, activeUsers, userChannels, ctlRooms, ctlPending>>
  /\ UNCHANGED <<hubVars, jwtAuth>>

\* websocketController.js:111-115; socket.io has taken the socket out of its
\* rooms
CtlDisconnect(s) ==
  /\ ctlStatus[s] = "connected"
  /\ ctlStatus' = [ctlStatus EXCEPT ![s] = "disconnected"]
  /\ ctlRooms' = [ctlRooms EXCEPT ![s] = {}]
  /\ activeUsers' = MapDelete(activeUsers, CtlUser(s))
  /\ userChannels' = MapDelete(userChannels, CtlUser(s))
  /\ ctlLast' = Step("disconnect", s, Missing, TRUE, <<>>, <<>>)
  /\ UNCHANGED ctlPending
  /\ UNCHANGED <<hubVars, jwtAuth>>

(***************************************************************************)
(* The JWT-decoding authenticateSocket middleware (unnamed/part_000).  Its *)
(* validateToken is a call to the backend that answers true or false or    *)
(* throws.                                                                 *)
(***************************************************************************)
JwtOutcomes == {"valid", "invalid", "throws"}

\* part_000:6-13, up to the await
JwtAuthenticate(s, token) ==
  /\ jwtAuth[s].state = "idle"
  /\ jwtAuth' = [jwtAuth EXCEPT ![s] =
       IF token = Missing
         THEN JwtRecord("rejected", token, <<>>, FALSE, 0,
                        "Authentication error: No token provided")
         ELSE JwtRecord("validating", token, <<>>, FALSE, 0, Missing)]
  /\ UNCHANGED <<ctlStatus, activeUsers, userChannels, ctlRooms, ctlPending,
                 ctlLast>>
  /\ UNCHANGED hubVars

\* part_000:20-25: a property read of null throws, before socket.user is
\* assigned
JwtSetUser(r, decoded) ==
  IF decoded = <<>>
    THEN JwtRecord("rejected", r.token, <<>>, TRUE, r.decodes + 1,
                   "Authentication error: TypeError")
    ELSE JwtRecord("accepted", r.token, <<[id |-> decoded[1].sub]>>, TRUE,
                   r.decodes + 1, Missing)

\* part_000:13-30, resumed after the await
JwtValidated(s, outcome) ==
  /\ jwtAuth[s].state = "validating"
  /\ jwtAuth' = [jwtAuth EXCEPT ![s] =
       CASE outcome = "throws" ->
              JwtRecord("rejected", @.token, <<>>, FALSE, @.decodes,
                        "Authentication error: request failed")
         [] outcome = "invalid" ->
              JwtRecord("rejected", @.token, <<>>, FALSE, @.decodes,
                        "Authentication error: Invalid token")
         [] OTHER -> JwtSetUser(@, JwtDecode(@.token))]
  /\ UNCHANGED <<ctlStatus, activeUsers, userChannels, ctlRooms, ctlPending,
                 ctlLast>>
  /\ UNCHANGED hubVars

(***************************************************************************)
(* The clock and the cache expiry timers (app.js:96-98).                   *)
(***************************************************************************)
Tick ==
  /\ now < MaxTicks * TickMs
  /\ ~TimerDue
  /\ now' = now + TickMs
  /\ last' = Step("tick", Missing, Missing, TRUE, <<>>, <<>>)
  /\ UNCHANGED <<connVars, memberVars, cacheVars, storeVars, pending>>
  /\ UNCHANGED ctlVars

ExpireEntry(cache, key) == MapDelete(cache, key)

TimerFire(t) ==
  /\ BagIn(t, timers)
  /\ t.due <= now
  /\ channelMessagesCache' = ExpireEntry(channelMessagesCache, t.key)
  /\ timers' = timers (-) SetToBag({t})
  /\ last' = Step("timer", Missing, t.key, TRUE, <<>>, <<>>)
  /\ UNCHANGED <<connVars, memberVars, entryWindow, now, storeVars, pending>>
  /\ UNCHANGED ctlVars

(***************************************************************************)
(* Specifications.  Spec is the whole hub with every input.  The others    *)
(* are the hub in a smaller environment: fewer connections, one channel,   *)
(* some events left out.  Every behaviour of theirs is a behaviour of the  *)
(* hub.                                                                    *)
(***************************************************************************)
ChannelInputs == Chans \cup {Missing}
ContentInputs == {"hi", Missing}
MessageIdInputs == {MsgId(n) : n \in 0..MaxMessages} \cup {Missing}
ReactionIdInputs == {ReactId(n) : n \in 1..MaxReactions} \cup {TempId, Missing}
ReactionTypeInputs == ReactionTypes \cup {Missing}

Next ==
  \/ \E s \in Conns, token \in Tokens : Connect(s, token)
  \/ \E s \in Conns, responseOk \in BOOLEAN : Authenticated(s, responseOk)
  \/ \E s \in Conns, c \in ChannelInputs : JoinChannel(s, c)
  \/ \E p \in pending : JoinChannelResume(p)
  \/ \E s \in Conns, c \in ChannelInputs : LeaveChannel(s, c)
  \/ \E s \in Conns : Disconnect(s)
  \/ \E s \in Conns, c \in ChannelInputs, x \in ContentInputs :
       NewMessage(s, c, x)
  \/ \E p \in pending : NewMessageResume(p)
  \/ \E s \in Conns, c \in ChannelInputs : RefreshMessages(s, c)
  \/ \E p \in pending : RefreshMessagesResume(p)
  \/ \E s \in Conns, m \in MessageIdInputs, c \in ChannelInputs,
        rt \in ReactionTypeInputs : AddReaction(s, m, c, rt)
  \/ \E p \in pending : ToggleRemoveResume(p)
  \/ \E p \in pending : AddReactionPosted(p)
  \/ \E p \in pending : AddReactionResume(p)
  \/ \E s \in Conns, m \in MessageIdInputs, r \in ReactionIdInputs,
        c \in ChannelInputs, rt \in ReactionTypeInputs :
       RemoveReaction(s, m, r, c, rt)
  \/ \E p \in pending : RemoveReactionResume(p)
  \/ \E s \in Conns, c \in ChannelInputs, b \in BOOLEAN : Typing(s, c, b)
  \/ Tick
  \/ \E t \in BagToSet(timers) : TimerFire(t)

Spec == Init /\ [][Next]_vars


\* Connecting with any token, and a channel to act on; a message is sent
\* while no other handler is suspended.
NextAuth ==
  \/ \E s \in SameUserConns, token \in Tokens : Connect(s, token)
  \/ \E s \in SameUserConns, responseOk \in BOOLEAN :
       Authenticated(s, responseOk)
  \/ \E s \in SameUserConns, c \in OneChannel : JoinChannel(s, c)
  \/ \E p \in pending : JoinChannelResume(p)
  \/ \E s \in SameUserConns, c \in OneChannel : LeaveChannel(s, c)
  \/ \E s \in SameUserConns : Disconnect(s)
  \/ \E s \in SameUserConns, c \in OneChannel :
       pending = {} /\ NewMessage(s, c, "hi")
  \/ \E p \in pending : NewMessageResume(p)

SpecAuth == Init /\ [][NextAuth]_vars

\* Membership of one channel: three connections joining, leaving and
\* disconnecting.
NextPresence ==
  \/ \E s \in Conns : Connect(s, DeviceToken(s))
  \/ \E s \in Conns : Authenticated(s, TRUE)
  \/ \E s \in Conns, c \in OneChannel : JoinChannel(s, c)
  \/ \E p \in pending : JoinChannelResume(p)
  \/ \E s \in Conns, c \in OneChannel : LeaveChannel(s, c)
  \/ \E s \in Conns : Disconnect(s)

SpecPresence == Init /\ [][NextPresence]_vars

\* Two channels: the two devices of user A join, leave and disconnect, the
\* device of user B stays in c1 once it has joined.
NextDisconnect ==
  \/ \E s \in Conns : Connect(s, DeviceToken(s))
  \/ \E s \in Conns : Authenticated(s, TRUE)
  \/ \E s \in SameUserConns, c \in Chans : JoinChannel(s, c)
  \/ \E c \in OneChannel : JoinChannel("s3", c)
  \/ \E p \in pending : JoinChannelResume(p)
  \/ \E s \in SameUserConns, c \in Chans : LeaveChannel(s, c)
  \/ \E s \in SameUserConns : Disconnect(s)

SpecDisconnect == Init /\ [][NextDisconnect]_vars

\* Messages in one channel: two devices of one user joining, leaving,
\* disconnecting, sending and refreshing.
NextMessage ==
  \/ \E s \in SameUserConns : Connect(s, DeviceToken(s))
  \/ \E s \in SameUserConns : Authenticated(s, TRUE)
  \/ \E s \in SameUserConns, c \in OneChannel : JoinChannel(s, c)
  \/ \E p \in pending : JoinChannelResume(p)
  \/ \E s \in SameUserConns, c \in OneChannel : LeaveChannel(s, c)
  \/ \E s \in SameUserConns : Disconnect(s)
  \/ \E s \in SameUserConns, c \in OneChannel : NewMessage(s, c, "hi")
  \/ \E p \in pending : NewMessageResume(p)
  \/ \E s \in SameUserConns, c \in OneChannel : RefreshMessages(s, c)
  \/ \E p \in pending : RefreshMessagesResume(p)

SpecMessage == Init /\ [][NextMessage]_vars

\* Sending in one channel: two devices of one user joining, leaving,
\* disconnecting and sending.
NextSend ==
  \/ \E s \in SameUserConns : Connect(s, DeviceToken(s))
  \/ \E s \in SameUserConns : Authenticated(s, TRUE)
  \/ \E s \in SameUserConns, c \in OneChannel : JoinChannel(s, c)
  \/ \E p \in pending : JoinChannelResume(p)
  \/ \E s \in SameUserConns, c \in OneChannel : LeaveChannel(s, c)
  \/ \E s \in SameUserConns : Disconnect(s)
  \/ \E s \in SameUserConns, c \in OneChannel : NewMessage(s, c, "hi")
  \/ \E p \in pending : NewMessageResume(p)

SpecSend == Init /\ [][NextSend]_vars

\* The cache over time: joins of one channel only, the clock and the
\* expiry timers.
NextExpiry ==
  \/ \E s \in TwoUserConns : Connect(s, DeviceToken(s))
  \/ \E s \in TwoUserConns : Authenticated(s, TRUE)
  \/ \E s \in TwoUserConns, c \in OneChannel : JoinChannel(s, c)
  \/ \E p \in pending : JoinChannelResume(p)
  \/ Tick
  \/ \E t \in BagToSet(timers) : TimerFire(t)

SpecExpiry == Init /\ [][NextExpiry]_vars

\* Reactions on a message the store already holds, in one channel, from two
\* devices of one user.
ReactStore ==
  [c \in Chans |->
     IF c = "c1"
       THEN <<[id |-> MsgId(0), channelId |-> "c1", senderId |-> "B",
               reactions |-> <<>>]>>
       ELSE <<>>]

InitReact == InitWith(ReactStore)

NextReact ==
  \/ \E s \in SameUserConns : Connect(s, DeviceToken(s))
  \/ \E s \in SameUserConns : Authenticated(s, TRUE)
  \/ \E s \in SameUserConns, c \in OneChannel : JoinChannel(s, c)
  \/ \E p \in pending : JoinChannelResume(p)
  \/ \E s \in SameUserConns, c \in OneChannel, rt \in ReactionTypes :
       AddReaction(s, MsgId(0), c, rt)
  \/ \E p \in pending : ToggleRemoveResume(p)
  \/ \E p \in pending : AddReactionPosted(p)
  \/ \E p \in pending : AddReactionResume(p)
  \/ \E s \in SameUserConns, r \in ReactionIdInputs \ {Missing},
        c \in OneChannel, rt \in ReactionTypes :
       RemoveReaction(s, MsgId(0), r, c, rt)
  \/ \E p \in pending : RemoveReactionResume(p)

SpecReact == InitReact /\ [][NextReact]_vars

\* The two connection handlers are two servers: a run is a run of the hub
\* or a run of the controller.
HubIdle == \A s \in Conns : status[s] = "idle"
CtlIdle == \A s \in Conns : ctlStatus[s] = "idle"

OneChannelInputs == OneChannel \cup {Missing}
OneMessageInputs == {MsgId(0), Missing}
OneReactionInputs == {ReactId(0), Missing}
TeamInputs == {"t1", Missing}
\* the payloads that lack a required field
NewMessageLacking ==
  {x \in OneChannelInputs \X ContentInputs : Missing \in {x[1], x[2]}}
AddReactionLacking ==
  {x \in OneMessageInputs \X OneChannelInputs \X ReactionTypeInputs :
     Missing \in {x[1], x[2], x[3]}}
RemoveReactionLacking ==
  {x \in OneMessageInputs \X OneReactionInputs \X OneChannelInputs
           \X ReactionTypeInputs :
     Missing \in {x[1], x[2], x[3], x[4]}}
CtlMessageLacking ==
  {x \in TeamInputs \X OneChannelInputs \X ContentInputs :
     Missing \in {x[1], x[2], x[3]}}

\* Events that lack a field, among connections that join and leave one
\* channel; the controller with the same.
NextInvalid ==
  \/ \E s \in TwoUserConns : CtlIdle /\ Connect(s, DeviceToken(s))
  \/ \E s \in TwoUserConns : Authenticated(s, TRUE)
  \/ \E s \in TwoUserConns, c \in OneChannelInputs : JoinChannel(s, c)
  \/ \E p \in pending : JoinChannelResume(p)
  \/ \E s \in TwoUserConns, c \in OneChannelInputs : LeaveChannel(s, c)
  \/ \E s \in TwoUserConns, c \in OneChannelInputs, b \in BOOLEAN :
       Typing(s, c, b)
  \/ \E s \in TwoUserConns, x \in NewMessageLacking :
       NewMessage(s, x[1], x[2])
  \/ \E s \in TwoUserConns : RefreshMessages(s, Missing)
  \/ \E s \in TwoUserConns, x \in AddReactionLacking :
       AddReaction(s, x[1], x[2], x[3])
  \/ \E s \in TwoUserConns, x \in RemoveReactionLacking :
       RemoveReaction(s, x[1], x[2], x[3], x[4])
  \/ \E s \in TwoUserConns : HubIdle /\ CtlConnect(s)
  \/ \E s \in TwoUserConns, tm \in TeamInputs, c \in OneChannelInputs :
       CtlSubscribe(s, tm, c)
  \/ \E p \in ctlPending : CtlSubscribeResume(p)
  \/ \E s \in TwoUserConns, x \in CtlMessageLacking :
       CtlMessage(s, x[1], x[2], x[3])
  \/ \E s \in TwoUserConns, tm \in TeamInputs, c \in OneChannelInputs :
       CtlTyping(s, tm, c, TRUE)

SpecInvalid == InitReact /\ [][NextInvalid]_vars

\* A store that refuses every write: the message of c1 carries a like of
\* user A, every event kind arrives with every payload while no other
\* handler is suspended, and the controller with the same.
FailStore ==
  [c \in Chans |->
     IF c = "c1"
       THEN <<[id |-> MsgId(0), channelId |-> "c1", senderId |-> "B",
               reactions |-> <<[id |-> ReactId(0), userId |-> "A",
                                reactionType |-> "like"]>>]>>
       ELSE <<>>]

InitFail == InitWith(FailStore)
FailTokens(s) == {DeviceToken(s), "tokBad", Missing}

NextFailures ==
  \/ \E s \in TwoUserConns : \E token \in FailTokens(s) :
       CtlIdle /\ Connect(s, token)
  \/ \E s \in TwoUserConns, responseOk \in BOOLEAN :
       Authenticated(s, responseOk)
  \/ \E s \in TwoUserConns, c \in OneChannelInputs :
       pending = {} /\ JoinChannel(s, c)
  \/ \E p \in pending : JoinChannelResume(p)
  \/ \E s \in TwoUserConns, c \in OneChannel : LeaveChannel(s, c)
  \/ \E s \in TwoUserConns : Disconnect(s)
  \/ \E s \in TwoUserConns, c \in OneChannelInputs, x \in ContentInputs :
       pending = {} /\ NewMessage(s, c, x) /\ store' = store
  \/ \E p \in pending : NewMessageResume(p)
  \/ \E s \in TwoUserConns, c \in OneChannelInputs :
       pending = {} /\ RefreshMessages(s, c)
  \/ \E p \in pending : RefreshMessagesResume(p)
  \/ \E s \in TwoUserConns, m \in OneMessageInputs, c \in OneChannelInputs,
        rt \in ReactionTypeInputs :
       pending = {} /\ AddReaction(s, m, c, rt) /\ store' = store
  \/ \E p \in pending : ToggleRemoveResume(p) /\ store' = store
  \/ \E p \in pending : AddReactionPosted(p)
  \/ \E p \in pending : AddReactionResume(p)
  \/ \E s \in TwoUserConns, m \in OneMessageInputs, r \in OneReactionInputs,
        c \in OneChannelInputs, rt \in ReactionTypeInputs :
       pending = {} /\ RemoveReaction(s, m, r, c, rt) /\ store' = store
  \/ \E p \in pending : RemoveReactionResume(p)
  \/ \E s \in TwoUserConns : HubIdle /\ CtlConnect(s)
  \/ \E s \in TwoUserConns, tm \in TeamInputs, c \in OneChannelInputs :
       ctlPending = {} /\ CtlSubscribe(s, tm, c)
  \/ \E p \in ctlPending : CtlSubscribeResume(p)
  \/ \E s \in TwoUserConns, tm \in TeamInputs, c \in OneChannelInputs,
        x \in ContentInputs :
       ctlPending = {} /\ CtlMessage(s, tm, c, x)
  \/ \E p \in ctlPending : CtlMessageResume(p)
  \/ \E s \in TwoUserConns : CtlDisconnect(s)

SpecFailures == InitFail /\ [][NextFailures]_vars

\* The controller alone: two devices of user A and one of user B, one
\* team, two channels.
NextController ==
  \/ \E s \in Conns : CtlConnect(s)
  \/ \E s \in Conns, c \in Chans : CtlSubscribe(s, "t1", c)
  \/ \E p \in ctlPending : CtlSubscribeResume(p)
  \/ \E s \in Conns, c \in OneChannel : CtlMessage(s, "t1", c, "hi")
  \/ \E p \in ctlPending : CtlMessageResume(p)
  \/ \E s \in Conns, c \in OneChannel : CtlTyping(s, "t1", c, TRUE)
  \/ \E s \in Conns : CtlDisconnect(s)

SpecController == Init /\ [][NextController]_vars

\* Membership of one channel with typing indicators.
NextTyping ==
  \/ \E s \in Conns : Connect(s, DeviceToken(s))
  \/ \E s \in Conns : Authenticated(s, TRUE)
  \/ \E s \in Conns, c \in OneChannel : JoinChannel(s, c)
  \/ \E p \in pending : JoinChannelResume(p)
  \/ \E s \in Conns, c \in OneChannel : LeaveChannel(s, c)
  \/ \E s \in Conns : Disconnect(s)
  \/ \E s \in Conns, c \in OneChannel, b \in BOOLEAN : Typing(s, c, b)

SpecTyping == Init /\ [][NextTyping]_vars

\* The cache over time with refreshes: joins and refresh-messages of one
\* channel, the clock and the expiry timers.
NextRefresh ==
  \/ \E s \in TwoUserConns : Connect(s, DeviceToken(s))
  \/ \E s \in TwoUserConns : Authenticated(s, TRUE)
  \/ \E s \in TwoUserConns, c \in OneChannel : JoinChannel(s, c)
  \/ \E p \in pending : JoinChannelResume(p)
  \/ \E s \in TwoUserConns, c \in OneChannel : RefreshMessages(s, c)
  \/ \E p \in pending : RefreshMessagesResume(p)
  \/ Tick
  \/ \E t \in BagToSet(timers) : TimerFire(t)

SpecRefresh == Init /\ [][NextRefresh]_vars

\* Every cache update in one channel: the handlers of one connection,
\* suspended together, send, react to the stored message and remove a
\* reaction; a join is handled while no handler is suspended.
NextCache ==
  \/ \E s \in OneConn : Connect(s, DeviceToken(s))
  \/ \E s \in OneConn : Authenticated(s, TRUE)
  \/ \E s \in OneConn, c \in OneChannel : pending = {} /\ JoinChannel(s, c)
  \/ \E p \in pending : JoinChannelResume(p)
  \/ \E s \in OneConn, c \in OneChannel : NewMessage(s, c, "hi")
  \/ \E p \in pending : NewMessageResume(p)
  \/ \E s \in OneConn, c \in OneChannel, rt \in ReactionTypes :
       AddReaction(s, MsgId(0), c, rt)
  \/ \E p \in pending : ToggleRemoveResume(p)
  \/ \E p \in pending : AddReactionPosted(p)
  \/ \E p \in pending : AddReactionResume(p)
  \/ \E s \in OneConn, c \in OneChannel, rt \in ReactionTypes :
       RemoveReaction(s, MsgId(0), ReactId(1), c, rt)
  \/ \E p \in pending : RemoveReactionResume(p)

SpecCache == InitReact /\ [][NextCache]_vars

\* The JWT-decoding middleware alone, with every token and every answer of
\* the backend.
NextJwt ==
  \/ \E s \in Conns, token \in JwtTokens : JwtAuthenticate(s, token)
  \/ \E s \in Conns, outcome \in JwtOutcomes : JwtValidated(s, outcome)

SpecJwt == Init /\ [][NextJwt]_vars

\* no other connection of the identity of this token is connecting or
\* connected
NoLiveSession(s, token) ==
  \A o \in Conns \ {s} :
    status[o] \in {"authenticating", "connected"} =>
      validateToken(handshake[o], TRUE)[2] # validateToken(token, TRUE)[2]

\* One live connection per identity: user A connects again with its second
\* device only after the first has disconnected; two channels.
NextSingle ==
  \/ \E s \in Conns :
       NoLiveSession(s, DeviceToken(s)) /\ Connect(s, DeviceToken(s))
  \/ \E s \in Conns : Authenticated(s, TRUE)
  \/ \E s \in Conns, c \in Chans : JoinChannel(s, c)
  \/ \E p \in pending : JoinChannelResume(p)
  \/ \E s \in Conns, c \in Chans : LeaveChannel(s, c)
  \/ \E s \in Conns : Disconnect(s)

SpecSingle == Init /\ [][NextSingle]_vars

\* Reactions of two users on the message of c1, which carries a like of
\* user A: each adds, toggles and removes by reaction id while no other
\* handler is suspended.
NextRemove ==
  \/ \E s \in TwoUserConns : Connect(s, DeviceToken(s))
  \/ \E s \in TwoUserConns : Authenticated(s, TRUE)
  \/ \E s \in TwoUserConns, c \in OneChannel :
       pending = {} /\ JoinChannel(s, c)
  \/ \E p \in pending : JoinChannelResume(p)
  \/ \E s \in TwoUserConns, c \in OneChannel, rt \in ReactionTypes :
       pending = {} /\ AddReaction(s, MsgId(0), c, rt)
  \/ \E p \in pending : ToggleRemoveResume(p)
  \/ \E p \in pending : AddReactionPosted(p)
  \/ \E p \in pending : AddReactionResume(p)
  \/ \E s \in TwoUserConns, r \in {ReactId(n) : n \in 0..MaxReactions},
        c \in OneChannel, rt \in ReactionTypes :
       pending = {} /\ RemoveReaction(s, MsgId(0), r, c, rt)
  \/ \E p \in pending : RemoveReactionResume(p)

SpecRemove == InitFail /\ [][NextRemove]_vars

(***************************************************************************)
(* Properties.                                                             *)
(***************************************************************************)
UserIds == Users \cup {DefaultUserId}
Accepted(s) == status[s] \in {"connected", "disconnected"}
EventOps == {"join-channel", "leave-channel", "new-message",
             "refresh-messages", "add-reaction", "remove-reaction",
             "disconnect"}
\* the indexes of the emissions of the last step that satisfy Test
EmitsWhere(Test(_)) == {i \in 1..Len(last.emits) : Test(last.emits[i])}

\* C1: a user id is in activeChannels[c] exactly when a live connection of
\* that user has joined c and has not left it or disconnected since.
C1_MembersAreJoinedSessions ==
  \A c \in Chans, u \in UserIds :
    (c \in DOMAIN activeChannels /\ u \in activeChannels[c])
      <=> (\E s \in Conns : /\ status[s] = "connected"
                            /\ sockUser[s] = u
                            /\ c \in joinedChannels[s])

\* C2: a connection with no token, an invalid token or a failed verifier
\* call is rejected: its socket.user is never set, none of its events is
\* handled, it is in no room, no member set and no suspended handler; an
\* accepted connection had its token verified exactly once, and events are
\* handled for accepted connections only.
C2_AuthGate ==
  /\ \A s \in Conns :
       ~Accepted(s) =>
         /\ sockUser[s] = Missing
         /\ joinedChannels[s] = {}
         /\ \A r \in Rooms : s \notin rooms[r]
         /\ \A p \in pending : p.conn # s
         /\ verifierCalls[s] = (IF status[s] = "authenticating" THEN 1
                                ELSE IF status[s] = "rejected"
                                          /\ handshake[s] # Missing
                                  THEN 1 ELSE 0)
  /\ \A s \in Conns :
       Accepted(s) => /\ verifierCalls[s] = 1
                      /\ handshake[s] # Missing
                      /\ ValidateData(handshake[s]).valid
                      /\ sockUser[s] # Missing
  /\ last.op \in EventOps => Accepted(last.conn)
  /\ (last.op = "authenticated" /\ ~last.ok) =>
       status[last.conn] = "rejected"
  /\ \A c \in DOMAIN activeChannels : \A u \in activeChannels[c] :
       \E s \in Conns : Accepted(s) /\ sockUser[s] = u

\* C2 witness: a connection was rejected after the verifier refused its
\* token while an accepted one has joined c1.
C2_Witness ==
  \E s \in Conns, o \in Conns :
    /\ status[s] = "rejected"
    /\ handshake[s] = "tokBad"
    /\ verifierCalls[s] = 1
    /\ Accepted(o) /\ "c1" \in joinedChannels[o]

\* the last step started a join-channel handler (a resumed one emits no
\* user-joined)
JoinHandled ==
  /\ last.op = "join-channel"
  /\ last.chan \in Chans
  /\ Len(last.emits) > 0
  /\ last.emits[1].ev = "user-joined"
JoinHit == JoinHandled /\ last.done
JoinMiss == JoinHandled /\ ~last.done
InWindow(c) ==
  CacheKey(c) \in DOMAIN entryWindow /\ now < entryWindow[CacheKey(c)]

\* C3: a join-channel miss makes one store call and the resumed handler
\* sends the fetched snapshot; a join-channel handled within the
\* time-to-live window of the channel's entry makes no store call and sends
\* the cached list; a join-channel handled after the window makes exactly
\* one store call.
C3_CacheRoundTrip ==
  /\ JoinMiss => /\ last.calls = <<"getChannelMessages">>
                 /\ ~InWindow(last.chan)
  /\ JoinHit => /\ last.calls = <<>>
                /\ last.emits[2].ev = "channel-history"
                /\ last.emits[2].data =
                     channelMessagesCache[CacheKey(last.chan)]
  /\ (JoinHandled /\ ~InWindow(last.chan)) =>
       last.calls = <<"getChannelMessages">>

\* the last step resumed a new-message handler whose createMessage succeeded
MessageSaved == last.op = "new-message" /\ last.done /\ last.ok
SavedMessage == last.emits[1].data

\* C4: when createMessage has succeeded, the saved message is appended at
\* the end of the channel's cache entry if there is one, no entry is created
\* if there is none, and no expiry timer changes; a join-channel on the
\* channel handled next, the entry in place, makes no store call and sends
\* a channel-history that ends with the new message.
C4_Step ==
  /\ (last'.op = "new-message" /\ last'.done /\ last'.ok) =>
       LET key == CacheKey(last'.chan) IN
       /\ timers' = timers
       /\ DOMAIN channelMessagesCache' = DOMAIN channelMessagesCache
       /\ \A k \in DOMAIN channelMessagesCache :
            channelMessagesCache'[k] =
              IF k = key
                THEN Append(channelMessagesCache[k], last'.emits[1].data)
                ELSE channelMessagesCache[k]
  /\ (/\ MessageSaved
      /\ CacheKey(last.chan) \in DOMAIN channelMessagesCache
      /\ last'.op = "join-channel" /\ last'.chan = last.chan
      /\ pending' = pending) =>
       /\ last'.done
       /\ last'.calls = <<>>
       /\ \E i \in 1..Len(last'.emits) :
            /\ last'.emits[i].ev = "channel-history"
            /\ Len(last'.emits[i].data) > 0
            /\ last'.emits[i].data[Len(last'.emits[i].data)] = SavedMessage

C4_AppendConsistency == [][C4_Step]_vars

\* C4 witness: a saved message was appended behind an older one in an entry
\* whose expiry timer is running.
C4_Witness ==
  /\ MessageSaved
  /\ CacheKey(last.chan) \in DOMAIN channelMessagesCache
  /\ Len(channelMessagesCache[CacheKey(last.chan)]) >= 2
  /\ timers # EmptyBag

\* C7: a new-message with channelId and content emits nothing before
\* createMessage returns; when it succeeded the handler broadcasts message
\* to the channel's room and then sends message-sent to the sender; when it
\* failed the handler sends one error to the sender, broadcasts nothing and
\* leaves the cache as it was.
C7_Step ==
  (/\ last'.op = "new-message"
   /\ last'.chan # Missing
   /\ (last'.calls # <<>> \/ pending' # pending)) =>
    IF ~last'.done
      THEN /\ last'.emits = <<>>
           /\ channelMessagesCache' = channelMessagesCache
           /\ last'.calls = <<"createMessage">>
      ELSE /\ last'.calls = <<>>
           /\ IF last'.ok
                THEN /\ Len(last'.emits) = 2
                     /\ last'.emits[1].ev = "message"
                     /\ last'.emits[1].to = rooms[RoomName(last'.chan)]
                     /\ last'.emits[1].data \in
                          {store[last'.chan][i] :
                             i \in 1..Len(store[last'.chan])}
                     /\ last'.emits[2].ev = "message-sent"
                     /\ last'.emits[2].to = ToSocket(last'.conn)
                     /\ last'.emits[2].data = last'.emits[1].data.id
                ELSE /\ Len(last'.emits) = 1
                     /\ last'.emits[1].ev = "error"
                     /\ last'.emits[1].to = ToSocket(last'.conn)
                     /\ channelMessagesCache' = channelMessagesCache

C7_OneReply == [][C7_Step]_vars

\* C7 witness: both outcomes: a failed createMessage answered by an error
\* while another connection is in the room.
C7_Witness ==
  /\ last.op = "new-message" /\ last.done /\ ~last.ok
  /\ rooms[RoomName(last.chan)] \ {last.conn} # {}
  /\ msgSeq > 0

\* C8: when new-message succeeds for channel c, message is delivered to
\* exactly the connections that have joined c and have not left it or
\* disconnected since.
C8_MessageReachesJoined ==
  MessageSaved =>
    last.emits[1].to = {s \in Conns : /\ status[s] = "connected"
                                      /\ last.chan \in joinedChannels[s]}

\* C9: a join-channel with a channelId, completed for a connection that is
\* still connected, is answered by exactly one channel-joined for that
\* channel, sent to that connection, whose activeUsers holds its user id.
C9_JoinAnswered ==
  (/\ last.op = "join-channel" /\ last.chan \in Chans /\ last.done
   /\ status[last.conn] = "connected") =>
    LET Confirms(e) == /\ e.ev = "channel-joined"
                       /\ e.chan = last.chan
                       /\ e.to = {last.conn}
                       /\ sockUser[last.conn] \in e.data
        IsConfirm(e) == e.ev = "channel-joined"
    IN /\ Cardinality(EmitsWhere(Confirms)) = 1
       /\ Cardinality(EmitsWhere(IsConfirm)) = 1

\* C10: when a connection disconnects, every other connection that is
\* joined to a channel the disconnecting one had joined receives exactly
\* one user-left for that channel, and nobody receives a user-left for a
\* channel it is not joined to.
C10_Step ==
  \A s \in Conns :
    (status[s] = "connected" /\ status'[s] = "disconnected") =>
      /\ \A c \in joinedChannels[s] : \A o \in Conns \ {s} :
           (status[o] = "connected" /\ c \in joinedChannels[o]) =>
             Cardinality({i \in 1..Len(last'.emits) :
                            /\ last'.emits[i].ev = "user-left"
                            /\ last'.emits[i].chan = c
                            /\ o \in last'.emits[i].to}) = 1
      /\ \A i \in 1..Len(last'.emits) : \A o \in last'.emits[i].to :
           last'.emits[i].ev = "user-left" =>
             last'.emits[i].chan \in joinedChannels[o]

C10_DisconnectNotifies == [][C10_Step]_vars

\* the step hands a new add-reaction event to its handler, which suspends
\* as p
AddReactionHandled(p) ==
  /\ p \in pending' /\ p \notin pending
  /\ pending \subseteq pending'
  /\ p.op = "add-reaction"
\* the last step completed an add-reaction handler with this broadcast
ReactionDone(step, action) ==
  /\ step.op = "add-reaction" /\ step.done /\ step.ok
  /\ Len(step.emits) = 1
  /\ step.emits[1].ev = "reaction-update"
  /\ step.emits[1].data.action = action

\* C5 as claimed: an add-reaction for (M, U, T) handled right after an
\* add-reaction for (M, U, T) has completed with action add takes the
\* removal branch for the same reaction id.
C5_AsClaimedStep ==
  \A p \in pending' :
    (/\ AddReactionHandled(p)
     /\ ReactionDone(last, "add")
     /\ last.emits[1].data.messageId = p.msg
     /\ last.emits[1].data.userId = sockUser[p.conn]
     /\ last.emits[1].data.reactionType = p.rtype
     /\ last.chan = p.chan) =>
      /\ p.await = "removeReaction"
      /\ p.rid = last.emits[1].data.id

C5_ToggleAsClaimed == [][C5_AsClaimedStep]_vars

\* C6: no cached message carries two reactions with the same userId and
\* reactionType.
C6_ReactionUniqueness ==
  \A k \in DOMAIN channelMessagesCache :
    \A i \in 1..Len(channelMessagesCache[k]) :
      LET rs == channelMessagesCache[k][i].reactions IN
      \A a, b \in 1..Len(rs) :
        (rs[a].userId = rs[b].userId
           /\ rs[a].reactionType = rs[b].reactionType) => a = b


\* the step sent an error to connection s
ErrorToCaller(s) ==
  \E i \in 1..Len(last'.emits) :
    last'.emits[i].ev = "error" /\ last'.emits[i].to = {s}

\* C11: every inbound event of the hub that lacks a required field is
\* answered with an error event sent to the calling connection.
C11_Step ==
  \A s \in Conns :
    /\ JoinChannel(s, Missing) => ErrorToCaller(s)
    /\ LeaveChannel(s, Missing) => ErrorToCaller(s)
    /\ \A b \in BOOLEAN : Typing(s, Missing, b) => ErrorToCaller(s)
    /\ RefreshMessages(s, Missing) => ErrorToCaller(s)
    /\ \A x \in NewMessageLacking :
         NewMessage(s, x[1], x[2]) => ErrorToCaller(s)
    /\ \A x \in AddReactionLacking :
         AddReaction(s, x[1], x[2], x[3]) => ErrorToCaller(s)
    /\ \A x \in RemoveReactionLacking :
         RemoveReaction(s, x[1], x[2], x[3], x[4]) => ErrorToCaller(s)

C11_LackingFieldAnswered == [][C11_Step]_vars

\* the hub step of connection s changed no membership, room or cache, made
\* no store call and reached nobody but s
HubUntouched(s) ==
  /\ UNCHANGED <<activeChannels, rooms, channelMessagesCache, timers>>
  /\ UNCHANGED <<store, pending>>
  /\ last'.calls = <<>>
  /\ \A i \in 1..Len(last'.emits) : last'.emits[i].to \subseteq {s}
\* the same of a controller step
CtlUntouched(s) ==
  /\ UNCHANGED <<activeUsers, userChannels, ctlRooms, ctlPending>>
  /\ ctlLast'.calls = <<>>
  /\ \A i \in 1..Len(ctlLast'.emits) : ctlLast'.emits[i].to \subseteq {s}

\* C12: an inbound event that lacks a required field changes no membership,
\* no room and no cache entry, calls no collaborator and delivers nothing to
\* another connection; in the hub and in the controller.
C12_Step ==
  \A s \in Conns :
    /\ JoinChannel(s, Missing) => HubUntouched(s)
    /\ LeaveChannel(s, Missing) => HubUntouched(s)
    /\ \A b \in BOOLEAN : Typing(s, Missing, b) => HubUntouched(s)
    /\ RefreshMessages(s, Missing) => HubUntouched(s)
    /\ \A x \in NewMessageLacking :
         NewMessage(s, x[1], x[2]) => HubUntouched(s)
    /\ \A x \in AddReactionLacking :
         AddReaction(s, x[1], x[2], x[3]) => HubUntouched(s)
    /\ \A x \in RemoveReactionLacking :
         RemoveReaction(s, x[1], x[2], x[3], x[4]) => HubUntouched(s)
    /\ \A tm \in TeamInputs, c \in OneChannelInputs :
         (Missing \in {tm, c}) =>
           /\ CtlSubscribe(s, tm, c) => CtlUntouched(s)
           /\ CtlTyping(s, tm, c, TRUE) => CtlUntouched(s)
    /\ \A x \in CtlMessageLacking :
         CtlMessage(s, x[1], x[2], x[3]) => CtlUntouched(s)

C12_LackingFieldNoEffect == [][C12_Step]_vars

\* C12 witness: a new-message without content was refused while both
\* connections are in the room and the channel has a cache entry.
C12_Witness ==
  /\ last.op = "new-message" /\ last.chan = "c1" /\ last.done
  /\ Len(last.emits) = 1 /\ last.emits[1].ev = "error"
  /\ rooms[RoomName("c1")] = TwoUserConns
  /\ CacheKey("c1") \in DOMAIN channelMessagesCache


\* the error events of a step went to nobody but its connection
ErrorsToCaller(step) ==
  \A i \in 1..Len(step.emits) :
    step.emits[i].ev = "error" => step.emits[i].to \subseteq {step.conn}

\* C13: an error event is emitted to the connection whose event failed and
\* to nobody else; a connection that is connected stops being so only by
\* its own disconnect, and a connection is rejected only while it connects;
\* in the hub and in the controller.
C13_Step ==
  /\ ErrorsToCaller(last')
  /\ ErrorsToCaller(ctlLast')
  /\ \A s \in Conns :
       /\ (status[s] = "connected" /\ status'[s] # "connected") =>
            (last'.op = "disconnect" /\ last'.conn = s)
       /\ (status[s] # "rejected" /\ status'[s] = "rejected") =>
            (/\ status[s] \in {"idle", "authenticating"}
             /\ last'.op \in {"connect", "authenticated"}
             /\ last'.conn = s)
       /\ (ctlStatus[s] = "connected" /\ ctlStatus'[s] # "connected") =>
            (ctlLast'.op = "disconnect" /\ ctlLast'.conn = s)

C13_ErrorsToCallerOnly == [][C13_Step]_vars

\* C13 witness: an add-reaction whose store calls failed was answered with
\* an error to its connection while the other connection is in the room.
C13_Witness ==
  /\ last.op = "add-reaction" /\ last.done /\ ~last.ok
  /\ \E i \in 1..Len(last.emits) :
       last.emits[i].ev = "error" /\ last.emits[i].to = {last.conn}
  /\ rooms[RoomName("c1")] = TwoUserConns

\* C14: a handler whose store call fails leaves activeChannels, the rooms
\* and channelMessagesCache as they were: neither the run up to the call
\* nor the run after the failure changes them.
C14_Step ==
  /\ \A p \in pending' \ pending :
       ~p.ok => UNCHANGED <<activeChannels, rooms, channelMessagesCache>>
  /\ \A p \in pending \ pending' :
       ~p.ok => UNCHANGED <<activeChannels, rooms, channelMessagesCache>>

C14_FailedCallNoEffect == [][C14_Step]_vars


\* the channels the registry records for the user of connection o
Recorded(uc, o) == PreviousChannels(uc, CtlUser(o))

\* C15: the disconnect of one connection leaves the activeUsers entry and
\* the recorded channels of every other connected connection as they were,
\* and a subscribe of one connection leaves the recorded channels of every
\* other connected connection as they were.
C15_Step ==
  \A s \in Conns : \A o \in Conns \ {s} :
    ctlStatus[o] = "connected" =>
      /\ CtlDisconnect(s) =>
           /\ CtlUser(o) \in DOMAIN activeUsers =>
                CtlUser(o) \in DOMAIN activeUsers'
           /\ Recorded(userChannels', o) = Recorded(userChannels, o)
      /\ \A tm \in TeamInputs, c \in ChannelInputs :
           CtlSubscribe(s, tm, c) =>
             Recorded(userChannels', o) = Recorded(userChannels, o)

C15_IndependentSessions == [][C15_Step]_vars

\* C16: a typing event with a channelId emits one user-typing, which
\* reaches every connection joined to the channel but not the sender, and
\* changes neither activeChannels nor the rooms nor the cache.
C16_Step ==
  \A s \in Conns, c \in Chans, b \in BOOLEAN :
    Typing(s, c, b) =>
      /\ Len(last'.emits) = 1
      /\ last'.emits[1].ev = "user-typing"
      /\ last'.emits[1].chan = c
      /\ s \notin last'.emits[1].to
      /\ \A o \in Conns \ {s} :
           (status[o] = "connected" /\ c \in joinedChannels[o]) =>
             o \in last'.emits[1].to
      /\ UNCHANGED <<activeChannels, rooms, channelMessagesCache, timers>>

C16_TypingBroadcast == [][C16_Step]_vars

\* C16 witness: a joined connection sent typing and the two others, joined
\* as well, received user-typing.
C16_Witness ==
  /\ last.op = "typing" /\ last.chan = "c1"
  /\ "c1" \in joinedChannels[last.conn]
  /\ Len(last.emits) = 1
  /\ last.emits[1].to = Conns \ {last.conn}
  /\ \A o \in Conns : "c1" \in joinedChannels[o]

\* C17: a join-channel on a connection that is already joined to the
\* channel leaves activeChannels and the rooms as they were.
C17_Step ==
  \A s \in Conns, c \in Chans :
    (c \in joinedChannels[s] /\ JoinChannel(s, c)) =>
      UNCHANGED <<activeChannels, rooms>>

C17_JoinIdempotent == [][C17_Step]_vars


\* the entry now stored under the key of timer t is the one t was
\* scheduled for
OwnEntry(t) ==
  /\ t.key \in DOMAIN channelMessagesCache
  /\ t.key \in DOMAIN entryWindow
  /\ entryWindow[t.key] = t.due

\* C18: an expiry timer that fires while the cache holds a newer entry for
\* its key than the one it was scheduled for leaves the cache as it is.
C18_Step ==
  \A t \in BagToSet(timers) :
    (TimerFire(t) /\ t.key \in DOMAIN channelMessagesCache /\ ~OwnEntry(t))
      => channelMessagesCache' = channelMessagesCache

C18_TimerDeletesOwnEntry == [][C18_Step]_vars

\* C19: every cache entry has an expiry timer pending for its key, due no
\* later than one time-to-live from now.
C19_EntriesExpire ==
  \A k \in DOMAIN channelMessagesCache :
    \E t \in BagToSet(timers) : t.key = k /\ t.due <= now + CacheTtlMs

\* a store fetch or a createMessage for channel c is in flight
FetchPending(c) ==
  \E p \in pending : p.chan = c /\ p.await = "getChannelMessages"
SavePending(c) ==
  \E p \in pending : p.chan = c /\ p.await = "createMessage"

\* C20: when a channel has a cache entry, no store fetch for it is pending
\* and every new-message on it has completed, the entry holds every message
\* the store created for the channel through new-message.
C20_ShadowCopy ==
  \A c \in Chans :
    (/\ CacheKey(c) \in DOMAIN channelMessagesCache
     /\ ~FetchPending(c) /\ ~SavePending(c)) =>
      \A i \in 1..Len(store[c]) :
        \E j \in 1..Len(channelMessagesCache[CacheKey(c)]) :
          channelMessagesCache[CacheKey(c)][j].id = store[c][i].id

\* the step completed a handler that updates the cache after its store call
\* succeeded
CacheUpdate(step) ==
  /\ step.op \in {"new-message", "add-reaction", "remove-reaction"}
  /\ step.done /\ step.ok
  /\ Len(step.emits) > 0
  /\ step.emits[1].ev \in {"message", "reaction-update"}
\* the ids of the reactions the entry holds for a message
ReactionIds(entry, messageId) ==
  {ReactionsOf(entry, messageId)[i].id :
     i \in 1..Len(ReactionsOf(entry, messageId))}
\* step `later` undoes what step `step` did to a reaction
Undoes(later, step) ==
  /\ later.emits[1].ev = "reaction-update"
  /\ later.emits[1].data.id = step.emits[1].data.id
  /\ later.emits[1].data.messageId = step.emits[1].data.messageId
  /\ later.emits[1].data.action # step.emits[1].data.action
\* the entry shows the update of `step`, `later` being the update applied
\* after it
Reflects(entry, step, later) ==
  LET d == step.emits[1].data IN
  IF step.emits[1].ev = "message"
    THEN \E j \in 1..Len(entry) : entry[j].id = d.id
    ELSE (\E j \in 1..Len(entry) : entry[j].id = d.messageId) =>
           \/ Undoes(later, step)
           \/ IF d.action = "add"
                THEN d.id \in ReactionIds(entry, d.messageId)
                ELSE d.id \notin ReactionIds(entry, d.messageId)

\* C21: a handler that updates the cache after its store call reads the
\* channel's entry and writes its replacement in the same step: the entry
\* written is the entry of that moment with the update applied, nothing
\* else of it is dropped, and after two such steps in a row on one channel
\* the entry shows both updates.
C21_Step ==
  CacheUpdate(last') =>
    LET key == CacheKey(last'.chan)
        d == last'.emits[1].data
    IN
    /\ DOMAIN channelMessagesCache' = DOMAIN channelMessagesCache
    /\ \A k \in DOMAIN channelMessagesCache \ {key} :
         channelMessagesCache'[k] = channelMessagesCache[k]
    /\ key \in DOMAIN channelMessagesCache =>
         LET old == channelMessagesCache[key]
             new == channelMessagesCache'[key]
         IN
         /\ Reflects(new, last', last')
         /\ Len(new) = Len(old) + (IF last'.emits[1].ev = "message"
                                     THEN 1 ELSE 0)
         /\ \A i \in 1..Len(old) :
              /\ new[i].id = old[i].id
              /\ \A j \in 1..Len(old[i].reactions) :
                   \/ /\ last'.emits[1].ev = "reaction-update"
                      /\ d.action = "remove"
                      /\ d.messageId = old[i].id
                      /\ d.id = old[i].reactions[j].id
                   \/ \E n \in 1..Len(new[i].reactions) :
                        new[i].reactions[n] = old[i].reactions[j]
         /\ (CacheUpdate(last) /\ last.chan = last'.chan) =>
              Reflects(new, last, last')

C21_NoLostUpdate == [][C21_Step]_vars

\* C21 witness: the entry of c1 holds a message appended by one handler and
\* a reaction added by another, the last step was a cache update and a
\* third handler is still suspended.
C21_Witness ==
  /\ CacheUpdate(last)
  /\ CacheKey("c1") \in DOMAIN channelMessagesCache
  /\ Len(channelMessagesCache[CacheKey("c1")]) >= 2
  /\ ReactionIds(channelMessagesCache[CacheKey("c1")], MsgId(0)) # {}
  /\ pending # {}

\* the step broadcast no reaction-update
NoReactionUpdate(step) ==
  \A i \in 1..Len(step.emits) : step.emits[i].ev # "reaction-update"

\* C22: when add-reaction found the caller's reaction in the cache and
\* removeReaction failed, the resumed handler sends an error to its
\* connection and ends there: no reaction-update, no further store call,
\* the cache as it was.
C22_Step ==
  \A p \in pending :
    (ToggleRemoveResume(p) /\ ~p.ok) =>
      /\ ErrorToCaller(p.conn)
      /\ NoReactionUpdate(last')
      /\ last'.done
      /\ last'.calls = <<>>
      /\ pending' = pending \ {p}
      /\ UNCHANGED <<channelMessagesCache, store>>

C22_RemovalFailureReported == [][C22_Step]_vars

\* the step sent one event, an error, to the connection of handler p
OneErrorTo(p) ==
  /\ Len(last'.emits) = 1
  /\ last'.emits[1].ev = "error"
  /\ last'.emits[1].to = ToSocket(p.conn)
\* the step broadcast one reaction-update with this action to the room of
\* the channel of handler p
OneReactionUpdate(p, action) ==
  /\ Len(last'.emits) = 1
  /\ last'.emits[1].ev = "reaction-update"
  /\ last'.emits[1].to = rooms[RoomName(p.chan)]
  /\ last'.emits[1].data.messageId = p.msg
  /\ last'.emits[1].data.action = action
\* the channel of handler p has a cache entry that holds its message
CachedMessage(cache, p) ==
  /\ CacheKey(p.chan) \in DOMAIN cache
  /\ \E i \in 1..Len(cache[CacheKey(p.chan)]) :
       cache[CacheKey(p.chan)][i].id = p.msg

\* C23: when addReaction fails in add-reaction, or removeReaction fails in
\* remove-reaction, the handler sends one error to its connection,
\* broadcasts nothing and leaves the cache as it was; when the call
\* succeeded, the cache holds the update in the state in which the
\* reaction-update is broadcast.
C23_Step ==
  \A p \in pending :
    /\ ((AddReactionPosted(p) \/ AddReactionResume(p)
           \/ RemoveReactionResume(p)) /\ ~p.ok) =>
         /\ OneErrorTo(p)
         /\ channelMessagesCache' = channelMessagesCache
    /\ (AddReactionResume(p) /\ p.ok) =>
         /\ OneReactionUpdate(p, "add")
         /\ CachedMessage(channelMessagesCache, p) =>
              last'.emits[1].data.id \in
                ReactionIds(channelMessagesCache'[CacheKey(p.chan)], p.msg)
    /\ (RemoveReactionResume(p) /\ p.ok) =>
         /\ OneReactionUpdate(p, "remove")
         /\ last'.emits[1].data.id = p.rid
         /\ CachedMessage(channelMessagesCache, p) =>
              p.rid \notin
                ReactionIds(channelMessagesCache'[CacheKey(p.chan)], p.msg)

C23_ReactionFailureReported == [][C23_Step]_vars

\* C23 witness: an addReaction failed and was answered with an error while
\* both connections are in the room and the cache holds the message with
\* its reaction.
C23_Witness ==
  /\ last.op = "add-reaction" /\ last.done /\ ~last.ok
  /\ Len(last.emits) = 1 /\ last.emits[1].ev = "error"
  /\ last.emits[1].to = {last.conn}
  /\ rooms[RoomName("c1")] = TwoUserConns
  /\ CacheKey("c1") \in DOMAIN channelMessagesCache
  /\ ReactionIds(channelMessagesCache[CacheKey("c1")], MsgId(0)) # {}

\* C24: in the controller every connection is in at most one team-channel
\* room.
C24_AtMostOneRoom ==
  \A s \in Conns : Cardinality(ctlRooms[s]) <= 1

\* C25: every key of activeChannels maps to a member set that is not
\* empty: a leave-channel or disconnect that removes the last member of a
\* channel deletes the channel's key in the same step.
C25_NoEmptyChannel ==
  \A c \in DOMAIN activeChannels : activeChannels[c] # {}

\* C25 witness: a leave-channel has just taken the last member out of c1,
\* telling the connection of another user that stays in the room, and c1
\* is no longer a key.
C25_Witness ==
  /\ last.op = "leave-channel" /\ last.chan = "c1"
  /\ Len(last.emits) = 1 /\ last.emits[1].ev = "user-left"
  /\ last.emits[1].to # {}
  /\ "c1" \notin DOMAIN activeChannels

\* the tokens that are not a JWT: jwt.decode has no claims for them
Undecodable == {"tokOpaque"}

\* C26: the JWT-decoding middleware decodes a token only after
\* validateToken has affirmed it, and once at most; a connection whose
\* affirmed token decodes to nothing is rejected with an authentication
\* error and its socket.user is never set.
C26_DecodeAfterValidation ==
  \A s \in Conns :
    LET r == jwtAuth[s] IN
    /\ r.decodes > 0 => (r.affirmed /\ r.decodes = 1)
    /\ r.state # "accepted" => r.user = <<>>
    /\ (r.affirmed /\ r.token \in Undecodable) =>
         /\ r.state = "rejected"
         /\ r.user = <<>>
         /\ r.error # Missing
    /\ r.state = "accepted" => (r.affirmed /\ r.user # <<>>)

\* C26 witness: a connection with a token that validateToken affirmed and
\* jwt.decode could not decode was rejected, another one was accepted.
C26_Witness ==
  \E s \in Conns, o \in Conns :
    /\ jwtAuth[s].token \in Undecodable
    /\ jwtAuth[s].affirmed
    /\ jwtAuth[s].state = "rejected"
    /\ jwtAuth[o].state = "accepted"

\* the events that are delivered to the members of a channel
ChannelEvents == {"message", "user-typing", "file-uploaded",
                  "reaction-update", "user-left"}

\* C27: a step of a connection delivers a channel event to other
\* connections only if that connection is joined to the channel.
C27_Step ==
  \A i \in 1..Len(last'.emits) :
    (/\ last'.emits[i].ev \in ChannelEvents
     /\ last'.emits[i].to \ {last'.conn} # {}) =>
      last'.emits[i].chan \in joinedChannels[last'.conn]

C27_SenderIsMember == [][C27_Step]_vars

\* no two connected connections have the same identity
OneSessionPerIdentity ==
  \A s \in Conns, o \in Conns :
    (s # o /\ status[s] = "connected" /\ status[o] = "connected") =>
      sockUser[s] # sockUser[o]
\* the identities activeChannels lists for a channel
Members(c) == IF c \in DOMAIN activeChannels THEN activeChannels[c] ELSE {}

\* C28: while every identity has at most one live connection, the
\* identities in activeChannels[C] are the identities of the connections
\* in the room channel:C, for every channel C.
C28_PresenceIsRoom ==
  OneSessionPerIdentity =>
    \A c \in Chans : Members(c) = {sockUser[s] : s \in rooms[RoomName(c)]}

\* C28 witness: user A is back with its second device after its first one,
\* which had joined, disconnected, and shares c1 with user B.
C28_Witness ==
  /\ status["s1"] = "disconnected"
  /\ status["s2"] = "connected"
  /\ rooms[RoomName("c1")] = {"s2", "s3"}
  /\ Members("c1") = {"A", "B"}
  /\ Members("c2") = {"B"}

\* C29: a user-left for channel C and identity U is broadcast only by a
\* leave-channel or disconnect before which U was in activeChannels[C],
\* and a leave-channel broadcasts it only for a channel its connection is
\* joined to.
C29_Step ==
  \A i \in 1..Len(last'.emits) :
    (last'.emits[i].ev = "user-left" /\ last'.emits[i].to # {}) =>
      /\ last'.op \in {"leave-channel", "disconnect"}
      /\ last'.emits[i].data \in Members(last'.emits[i].chan)
      /\ last'.op = "leave-channel" =>
           last'.emits[i].chan \in joinedChannels[last'.conn]

C29_LeftOnlyForMembers == [][C29_Step]_vars

\* the reactions of other users that the cache holds under the reaction id
\* handler p names
OthersReactions(cache, p) ==
  IF CacheKey(p.chan) \notin DOMAIN cache THEN {}
  ELSE LET rs == ReactionsOf(cache[CacheKey(p.chan)], p.msg) IN
       {rs[i] : i \in {j \in 1..Len(rs) : /\ rs[j].id = p.rid
                                           /\ rs[j].userId # sockUser[p.conn]}}

\* C30: a remove-reaction that names the reaction id of another user's
\* reaction leaves that reaction in the cache and broadcasts no
\* reaction-update.
C30_Step ==
  \A p \in pending :
    (RemoveReactionResume(p)
       /\ OthersReactions(channelMessagesCache, p) # {}) =>
      /\ OthersReactions(channelMessagesCache', p) =
           OthersReactions(channelMessagesCache, p)
      /\ NoReactionUpdate(last')

C30_RemovesOwnReactionOnly == [][C30_Step]_vars

\* the identity of connection s has no connected connection
NoLiveConnection(s) ==
  \A o \in Conns : status[o] = "connected" => sockUser[o] # sockUser[s]

\* C31: once the disconnect handler of a connection has run, its identity
\* is in no member set of activeChannels for as long as the identity has no
\* live connection, whatever steps follow, the resumption of the
\* connection's suspended handlers among them.
C31_GoneAfterDisconnect ==
  \A s \in Conns :
    (status[s] = "disconnected" /\ NoLiveConnection(s)) =>
      \A c \in Chans : sockUser[s] \notin Members(c)

\* C31 witness: a join-channel handler of a connection that had
\* disconnected while it was suspended has just resumed; the identity has
\* no live connection and another user is still a member of the channel.
C31_Witness ==
  /\ last.op = "join-channel" /\ last.done /\ last.calls = <<>>
  /\ Len(last.emits) = 2
  /\ status[last.conn] = "disconnected"
  /\ NoLiveConnection(last.conn)
  /\ Members(last.chan) = {"B"}
  /\ CacheKey(last.chan) \in DOMAIN channelMessagesCache

====
